---- MODULE Spec2Model ----
(***************************************************************************)
(* A model of the log pipeline of liveu-bandwidth-analyzer:                *)
(*   - backend/src/log_merger.py      (merge_messages_logs and helpers)    *)
(*   - backend/src/session_analyzer.py (SessionAnalyzer)                   *)
(*   - parser/src/worker.py           (BandwidthParser)                    *)
(*                                                                         *)
(* Texts are modelled by their structure.  A log line is a record naming   *)
(* the timestamp layout it starts with, the wall-clock fields written, the *)
(* fraction and the UTC offset written, and a body.  A caller's date bound *)
(* is a record naming its layout and the number of whitespace-separated    *)
(* parts str.split() yields.  An instant (a naive datetime) is the tuple   *)
(* <<year, month, day, second-of-day, microsecond>>, compared field by     *)
(* field like datetime.                                                    *)
(***************************************************************************)
EXTENDS Integers, Sequences, FiniteSets, TLC

VARIABLES
    disk,         \* the archive's directories (os.walk order): file name -> lines
    inp,          \* merge: the arguments and environment of the call
    pc,           \* merge: position inside merge_messages_logs
    tempExists,   \* merge: the TemporaryDirectory exists on disk
    extracted,    \* merge: directories unpacked under the temp directory
    range,        \* merge: <<start_dt, end_dt>> of parse_date_range
    log_files,    \* merge: the (file, rotation) list of the resolver
    log_directory,\* merge: index of the directory chosen as log_dirs[0] (0: none)
    all_lines,    \* merge: the retained (timestamp, line, file, rotation) tuples
    counters,     \* merge: total_lines, filtered_count
    raised,       \* merge: the message of the exception in flight ("" if none)
    result,       \* merge: the dictionary being returned
    log_content,      \* the lines of the log submitted for analysis or uploaded
    analysis,     \* analyzer: the call of analyze_file and what it returned
    uploaded,     \* the object upload_log stored
    row,          \* the job's row of the sessions table
    parse_queue,  \* the queue between upload_log and the worker
    job_data,     \* worker: the job taken from the queue
    wpc,          \* worker: position inside process_job
    job_metrics,      \* worker: the local list of records
    last_error,        \* worker: the call that raised last ("" if none)
    bandwidth_metrics \* the records save_metrics inserted

mergeVars == <<disk, inp, pc, tempExists, extracted, range, log_directory, log_files,
               all_lines, counters, raised, result>>

parseVars == <<log_content, analysis, uploaded, row, parse_queue, job_data, wpc, job_metrics,
               last_error, bandwidth_metrics>>

vars == <<mergeVars, parseVars>>

-----------------------------------------------------------------------------
(* Bounds of the model.                                                    *)

\* The total number of lines in the files of a modelled archive.
MaxLines == 3

\* The number of lines of a log submitted to the analyzer or uploaded.
MaxContent == 3

\* The wall-clock year substituted for syslog lines (datetime.now().year).
CurrentYear == 2026

-----------------------------------------------------------------------------
(* Sequences.                                                              *)

RECURSIVE SeqSum(_)
SeqSum(s) == IF s = <<>> THEN 0 ELSE Head(s) + SeqSum(Tail(s))

-----------------------------------------------------------------------------
(* Instants: naive datetimes.                                              *)

NoneDT == <<>>

\* datetime.fromtimestamp(0): the value standing for "no timestamp parsed"
Sentinel == <<1970, 1, 1, 0, 0>>

Year(t) == t[1]

RECURSIVE LexLess(_, _)
LexLess(a, b) ==
    IF a = <<>> \/ b = <<>> THEN FALSE
    ELSE IF Head(a) # Head(b) THEN Head(a) < Head(b)
    ELSE LexLess(Tail(a), Tail(b))

\* datetime.__lt__ on two naive datetimes
Before(a, b) == LexLess(a, b)

SecOfDay(h, mi, s) == h * 3600 + mi * 60 + s

-----------------------------------------------------------------------------
(* Log lines and extract_timestamp.                                        *)

\* A line text: fmt is the layout the line starts with, clock the written
\* <<year, month, day, second-of-day>> (year 0 where the layout has none),
\* frac the written microseconds, off the written UTC offset in minutes
\* (<<>> where none is written).
Line(fmt, clock, frac, off, body) ==
    [fmt |-> fmt, clock |-> clock, frac |-> frac, off |-> off, body |-> body]

BlankLine == Line("blank", <<0, 0, 0, 0>>, 0, <<>>, "")

\* line.strip() is falsy
IsBlank(line) == line.fmt = "blank"

\* timestamp_patterns, in the order tried
TimestampPatterns == <<"iso_frac_tz", "iso_tz", "iso_frac", "iso", "std", "syslog">>

\* formats, in the order tried
TimestampFormats == <<"iso_frac_tz", "iso_tz", "iso_frac", "iso", "std", "syslog">>

\* re.match(pattern, line.strip()): the layout of group(1), or "nomatch".
\* A pattern without offset or fraction also matches the prefix of a longer
\* ISO layout.
PatternGroup(pattern, line) ==
    CASE pattern = "iso_frac_tz" /\ line.fmt = "iso_frac_tz" -> "iso_frac_tz"
      [] pattern = "iso_tz" /\ line.fmt = "iso_tz" -> "iso_tz"
      [] pattern = "iso_frac" /\ line.fmt \in {"iso_frac_tz", "iso_frac"} -> "iso_frac"
      [] pattern = "iso" /\ line.fmt \in {"iso_frac_tz", "iso_tz", "iso_frac", "iso"} -> "iso"
      [] pattern = "std" /\ line.fmt = "std" -> "std"
      [] pattern = "syslog" /\ line.fmt = "syslog" -> "syslog"
      [] OTHER -> "nomatch"

ValidClock(clock) ==
    /\ clock[2] \in 1..12
    /\ clock[3] \in 1..31
    /\ clock[4] \in 0..86399

\* datetime.strptime(group, fmt) followed by the two replace() calls:
\* the syslog layout takes current_year, an offset is dropped (tzinfo=None)
\* and not applied.  NoneDT stands for ValueError.
StrpLine(group, fmt, line, current_year) ==
    IF group # fmt \/ ~ValidClock(line.clock) THEN NoneDT
    ELSE LET y  == IF fmt = "syslog" THEN current_year ELSE line.clock[1]
             us == IF fmt \in {"iso_frac_tz", "iso_frac"} THEN line.frac ELSE 0
         IN  <<y, line.clock[2], line.clock[3], line.clock[4], us>>

RECURSIVE TryFormats(_, _, _, _)
TryFormats(k, group, line, current_year) ==
    IF k > Len(TimestampFormats) THEN NoneDT
    ELSE LET dt == StrpLine(group, TimestampFormats[k], line, current_year)
         IN  IF dt # NoneDT THEN dt
             ELSE TryFormats(k + 1, group, line, current_year)

RECURSIVE TryPatterns(_, _, _)
TryPatterns(k, line, current_year) ==
    IF k > Len(TimestampPatterns) THEN Sentinel
    ELSE LET group == PatternGroup(TimestampPatterns[k], line)
             dt    == IF group = "nomatch" THEN NoneDT
                      ELSE TryFormats(1, group, line, current_year)
         IN  IF dt # NoneDT THEN dt
             ELSE TryPatterns(k + 1, line, current_year)

extract_timestamp(line) == TryPatterns(1, line, CurrentYear)

-----------------------------------------------------------------------------
(* Date bounds and parse_date_range.                                       *)

\* A bound string: layout is the strptime format the whole string matches
\* ("date", "date_hm", "date_hms" or "other"), parts is len(str.split()),
\* clock the written <<year, month, day, hour, minute, second>>.
Bound(layout, parts, clock) == [layout |-> layout, parts |-> parts, clock |-> clock]

\* None or "": falsy
NoBound == Bound("none", 0, <<0, 0, 0, 0, 0, 0>>)

\* datetime.strptime(str, fmt) on a bound string; NoneDT stands for ValueError
StrpBound(str, fmt) ==
    IF str.layout # fmt THEN NoneDT
    ELSE <<str.clock[1], str.clock[2], str.clock[3],
           SecOfDay(str.clock[4], str.clock[5], str.clock[6]), 0>>

\* the format parse_date_range picks from len(parts)
BoundFormat(str) ==
    IF str.parts = 1 THEN "date"
    ELSE IF str.parts = 2 THEN "date_hm"
    ELSE "date_hms"

ParseStart(start_str) ==
    IF start_str.layout = "none" THEN NoneDT
    ELSE StrpBound(start_str, BoundFormat(start_str))

\* EndOfDay without the replace(): the bound stays at midnight
EndOfDayForgotten(dt) == dt

\* end_dt.replace(hour=23, minute=59, second=59)
EndOfDay(dt) == <<dt[1], dt[2], dt[3], SecOfDay(23, 59, 59), dt[5]>>

ParseEnd(end_str) ==
    IF end_str.layout = "none" THEN NoneDT
    ELSE LET dt == StrpBound(end_str, BoundFormat(end_str))
         IN  IF dt # NoneDT /\ end_str.parts = 1 THEN EndOfDay(dt) ELSE dt

\* parse_date_range with one try block around both bounds: a bound that does
\* not parse takes the other with it
parse_date_range_one_try(start_str, end_str) ==
    IF \/ start_str.layout # "none" /\ ParseStart(start_str) = NoneDT
       \/ end_str.layout # "none" /\ ParseEnd(end_str) = NoneDT
    THEN <<NoneDT, NoneDT>>
    ELSE <<ParseStart(start_str), ParseEnd(end_str)>>

parse_date_range(start_str, end_str) == <<ParseStart(start_str), ParseEnd(end_str)>>

is_timestamp_in_range(timestamp, start_dt, end_dt) ==
    IF Year(timestamp) <= 1970 THEN FALSE
    ELSE IF start_dt # NoneDT /\ Before(timestamp, start_dt) THEN FALSE
    ELSE IF end_dt # NoneDT /\ Before(end_dt, timestamp) THEN FALSE
    ELSE TRUE

-----------------------------------------------------------------------------
(* Archives, extract_archive and the rotation resolver.                    *)

\* A file name: stem, then "." and a rotation number if rot = <<n>>, then tail.
FileName(stem, rot, tail) == [stem |-> stem, rot |-> rot, tail |-> tail]

CurrentLog     == FileName("messages.log", <<>>, "")
RotatedLog(n)  == FileName("messages.log", <<n>>, ".gz")
StaleLog       == FileName("messages.log", <<>>, ".old")
ExtractedFile  == FileName("extracted", <<>>, "")

\* f.startswith('messages.log')
StartsWithMessagesLog(f) == f.stem = "messages.log"

\* glob("messages.log.*.gz") filtered by re.search(r'messages\.log\.(\d+)\.gz$')
IsRotatedSegment(f) == f.stem = "messages.log" /\ f.rot # <<>> /\ f.tail = ".gz"

\* archive_path.endswith(suffix): a name ending in .tar.bz2 also ends in .bz2
EndsWith(path, suffix) ==
    \/ path = suffix
    \/ path = ".tar.bz2" /\ suffix = ".bz2"

\* UnknownSuffix as a fallback: an unknown suffix is opened as a tar
UnknownSuffixAsTar(archive) ==
    IF archive.payload = "tar"
    THEN [raised |-> "", members |-> archive.dirs]
    ELSE [raised |-> "ReadError", members |-> <<>>]

\* the else branch of extract_archive: raise ValueError, nothing unpacked
UnknownSuffix(archive) ==
    [raised |-> "Unsupported archive format", members |-> <<>>]

\* extract_archive: what lands under extract_to (a sequence of directories in
\* os.walk order, each a function from file names to line sequences), or the
\* exception raised.  payload is what the bytes really are: "tar" (a tar in
\* the encoding the suffix names), "single" (bzip2 of one plain file) or
\* "corrupt".
extract_archive(archive) ==
    IF EndsWith(archive.suffix, ".tar.bz2") THEN
        IF archive.payload = "tar"
        THEN [raised |-> "", members |-> archive.dirs]
        ELSE [raised |-> "ReadError", members |-> <<>>]
    ELSE IF EndsWith(archive.suffix, ".bz2") THEN
        IF archive.payload = "tar"
        THEN [raised |-> "", members |-> archive.dirs]
        ELSE IF archive.payload = "single"
        THEN [raised |-> "", members |-> << (ExtractedFile :> <<>>) >>]
        ELSE [raised |-> "OSError", members |-> <<>>]
    ELSE IF EndsWith(archive.suffix, ".tar") THEN
        IF archive.payload = "tar"
        THEN [raised |-> "", members |-> archive.dirs]
        ELSE [raised |-> "ReadError", members |-> <<>>]
    ELSE UnknownSuffix(archive)

\* the directories of os.walk holding a file that starts with 'messages.log'
RECURSIVE LogDirs(_, _)
LogDirs(dirs, k) ==
    IF k > Len(dirs) THEN <<>>
    ELSE (IF \E f \in DOMAIN dirs[k] : StartsWithMessagesLog(f) THEN <<k>> ELSE <<>>)
         \o LogDirs(dirs, k + 1)

\* insertion of x into a list sorted by rotation descending, after its equals
RECURSIVE InsertByRotationDesc(_, _)
InsertByRotationDesc(sorted, x) ==
    IF sorted = <<>> THEN <<x>>
    ELSE IF Head(sorted)[2] < x[2] THEN <<x>> \o sorted
    ELSE <<Head(sorted)>> \o InsertByRotationDesc(Tail(sorted), x)

\* files.sort(key=lambda x: x[1], reverse=True): stable
RECURSIVE SortByRotationDesc(_)
SortByRotationDesc(files) ==
    IF files = <<>> THEN <<>>
    ELSE InsertByRotationDesc(SortByRotationDesc(SubSeq(files, 1, Len(files) - 1)),
                              files[Len(files)])

\* get_messages_log_files: globbed lists the rotated segments in the order the
\* file system happens to yield them
get_messages_log_files(dir, globbed) ==
    LET current == IF CurrentLog \in DOMAIN dir THEN << <<CurrentLog, 0>> >> ELSE <<>>
        rotated == [i \in 1..Len(globbed) |-> <<globbed[i], globbed[i].rot[1]>>]
    IN  SortByRotationDesc(current \o rotated)

\* the orders in which glob can yield the rotated segments of dir
GlobOrders(dir) ==
    LET segs == {f \in DOMAIN dir : IsRotatedSegment(f)}
    IN  {q \in [1..Cardinality(segs) -> segs] : \A i, j \in DOMAIN q : i # j => q[i] # q[j]}

\* read_log_file: the lines, or [] when reading raised
read_log_file(dir, file, unreadable) ==
    IF file \in unreadable THEN <<>> ELSE dir[file]

-----------------------------------------------------------------------------
(* The scan, the sort and the output of merge_messages_logs.               *)

NoFile == FileName("", <<>>, "")

Entry(timestamp, line, file, rotation) ==
    [timestamp |-> timestamp, line |-> line, file |-> file, rotation |-> rotation]

\* KeepLine without the test that a bound is set: the range check always runs
KeepLineAlwaysChecked(timestamp, start_dt, end_dt) ==
    Year(timestamp) > 1970 /\ is_timestamp_in_range(timestamp, start_dt, end_dt)

\* the condition under which the scan appends a non-blank line to all_lines
KeepLine(timestamp, start_dt, end_dt) ==
    IF start_dt # NoneDT \/ end_dt # NoneDT
    THEN Year(timestamp) > 1970 /\ is_timestamp_in_range(timestamp, start_dt, end_dt)
    ELSE TRUE

\* the inner loop over the lines of one file
RECURSIVE ScanFile(_, _, _, _, _, _)
ScanFile(lines, file, rotation, start_dt, end_dt, acc) ==
    IF lines = <<>> THEN acc
    ELSE LET line == Head(lines)
             timestamp == extract_timestamp(line)
             next ==
                IF IsBlank(line) THEN acc
                ELSE IF KeepLine(timestamp, start_dt, end_dt)
                THEN [acc EXCEPT !.all_lines = Append(@, Entry(timestamp, line, file, rotation)),
                                 !.total_lines = @ + 1]
                ELSE [acc EXCEPT !.filtered_count = @ + 1,
                                 !.total_lines = @ + 1]
         IN  ScanFile(Tail(lines), file, rotation, start_dt, end_dt, next)

\* the outer loop over log_files
RECURSIVE ScanFiles(_, _, _, _, _, _)
ScanFiles(files, dir, unreadable, start_dt, end_dt, acc) ==
    IF files = <<>> THEN acc
    ELSE LET lines == read_log_file(dir, Head(files)[1], unreadable)
         IN  ScanFiles(Tail(files), dir, unreadable, start_dt, end_dt,
                       ScanFile(lines, Head(files)[1], Head(files)[2], start_dt, end_dt, acc))

\* InsertByTimestamp as an unstable sort would do it: x goes before its equals
RECURSIVE InsertBeforeEquals(_, _)
InsertBeforeEquals(sorted, x) ==
    IF sorted = <<>> THEN <<x>>
    ELSE IF ~Before(Head(sorted).timestamp, x.timestamp) THEN <<x>> \o sorted
    ELSE <<Head(sorted)>> \o InsertBeforeEquals(Tail(sorted), x)

\* insertion of x into a list sorted by timestamp ascending, after its equals
RECURSIVE InsertByTimestamp(_, _)
InsertByTimestamp(sorted, x) ==
    IF sorted = <<>> THEN <<x>>
    ELSE IF Before(x.timestamp, Head(sorted).timestamp) THEN <<x>> \o sorted
    ELSE <<Head(sorted)>> \o InsertByTimestamp(Tail(sorted), x)

\* all_lines.sort(key=lambda x: x[0]): stable
RECURSIVE SortByTimestamp(_)
SortByTimestamp(lines) ==
    IF lines = <<>> THEN <<>>
    ELSE InsertByTimestamp(SortByTimestamp(SubSeq(lines, 1, Len(lines) - 1)),
                           lines[Len(lines)])

Item(kind, val) == [kind |-> kind, val |-> val]

\* header_lines and the four lines that follow them
HeaderLines(start_dt, end_dt, n_entries, total_lines, n_files) ==
    << Item("title", <<>>) >>
    \o (IF start_dt # NoneDT \/ end_dt # NoneDT
        THEN << Item("filter", <<>>) >>
             \o (IF start_dt # NoneDT THEN << Item("from", start_dt) >> ELSE <<>>)
             \o (IF end_dt # NoneDT THEN << Item("to", end_dt) >> ELSE <<>>)
             \o << Item("included", <<n_entries, total_lines>>) >>
        ELSE <<>>)
    \o << Item("generated", <<n_files>>), Item("total", <<n_entries>>),
          Item("rule", <<>>), Item("empty", <<>>) >>

\* SourceChanged as a once-only header: a marker before the first line only
SourceChangedFirstOnly(source_file, current_source) == current_source = FileName("", <<>>, "")

\* whether the loop emits a "# Source:" marker before a line of source_file
SourceChanged(source_file, current_source) == source_file # current_source

\* the loop that emits the merged lines and the "# Source:" markers
RECURSIVE EmitLines(_, _)
EmitLines(lines, current_source) ==
    IF lines = <<>> THEN <<>>
    ELSE LET e == Head(lines)
         IN  (IF SourceChanged(e.file, current_source)
              THEN << Item("source", <<e.file, e.rotation>>) >>
              ELSE <<>>)
             \o << Item("line", e.line) >>
             \o EmitLines(Tail(lines), e.file)

\* isoformat() of the earliest or latest retained instant, None if sentinel
ReportedInstant(lines, k) ==
    IF lines = <<>> THEN NoneDT
    ELSE IF Year(lines[k].timestamp) > 1970 THEN lines[k].timestamp
    ELSE NoneDT

\* the metadata with the retained lines reported as the lines processed
Metadata_retained(files, lines, total_lines, filtered_count, start_dt, end_dt, dir_index) ==
    [ total_files |-> Len(files),
      total_entries |-> Len(lines),
      total_lines_processed |-> Len(lines),
      lines_filtered_out |-> filtered_count,
      files_processed |-> [i \in 1..Len(files) |-> files[i][1]],
      earliest |-> ReportedInstant(lines, 1),
      latest |-> ReportedInstant(lines, Len(lines)),
      filter_start |-> start_dt,
      filter_end |-> end_dt,
      extraction_directory |-> dir_index ]

Metadata(files, lines, total_lines, filtered_count, start_dt, end_dt, dir_index) ==
    [ total_files |-> Len(files),
      total_entries |-> Len(lines),
      total_lines_processed |-> total_lines,
      lines_filtered_out |-> filtered_count,
      files_processed |-> [i \in 1..Len(files) |-> files[i][1]],
      earliest |-> ReportedInstant(lines, 1),
      latest |-> ReportedInstant(lines, Len(lines)),
      filter_start |-> start_dt,
      filter_end |-> end_dt,
      extraction_directory |-> dir_index ]

NoMetadata == <<>>

\* error is the message, as the tuple of its parts
Failure(error) ==
    [success |-> FALSE, error |-> error, content |-> <<>>, metadata |-> NoMetadata]

Success(content, metadata) ==
    [success |-> TRUE, error |-> <<>>, content |-> content, metadata |-> metadata]

\* no dictionary built yet
NoResult == [success |-> FALSE, error |-> <<"pending">>, content |-> <<>>, metadata |-> NoMetadata]

-----------------------------------------------------------------------------
(* The inputs explored.                                                    *)

\* 2024-01-15T23:59:59 a
LineA == Line("iso", <<2024, 1, 15, 86399>>, 0, <<>>, "a")
\* 2024-01-15T23:59:59+02:00 b
LineB == Line("iso_tz", <<2024, 1, 15, 86399>>, 0, <<120>>, "b")
\* 2024-01-16 00:00:01 c
LineC == Line("std", <<2024, 1, 16, 1>>, 0, <<>>, "c")
\* a line that starts with no timestamp
LineD == Line("none", <<0, 0, 0, 0>>, 0, <<>>, "d")
\* 2024-01-15T10:30:00.500000-05:00 f
LineF == Line("iso_frac_tz", <<2024, 1, 15, 37800>>, 500000, <<-300>>, "f")
\* Jan 15 10:30:45 g
LineG == Line("syslog", <<0, 1, 15, 37845>>, 0, <<>>, "g")
\* 1970-06-01T00:00:00 h
LineH == Line("iso", <<1970, 6, 1, 0>>, 0, <<>>, "h")
\* 2024-13-45T10:30:00 i: the pattern matches, strptime raises
LineI == Line("iso", <<2024, 13, 45, 37800>>, 0, <<>>, "i")

\* the lines a larger archive is written from
CommonLines == {LineA, LineB, LineC, LineD, BlankLine}

\* the lines a small archive is written from
AllLines == CommonLines \cup {LineF, LineG, LineH, LineI}

DateOnly(y, mo, d) == Bound("date", 1, <<y, mo, d, 0, 0, 0>>)
DateHM(y, mo, d, h, mi) == Bound("date_hm", 2, <<y, mo, d, h, mi, 0>>)
DateHMS(y, mo, d, h, mi, sec) == Bound("date_hms", 2, <<y, mo, d, h, mi, sec>>)
\* text matching none of the three layouts, of the given number of parts
Garbage(parts) == Bound("other", parts, <<0, 0, 0, 0, 0, 0>>)

StartStrings ==
    { NoBound, DateOnly(2024, 1, 16), DateHM(2024, 1, 15, 23, 59),
      DateHMS(2024, 1, 15, 23, 59, 59), Garbage(1), Garbage(3) }

EndStrings ==
    { NoBound, DateOnly(2024, 1, 15), DateHM(2024, 1, 15, 23, 59),
      DateHMS(2024, 1, 15, 23, 59, 59), Garbage(1), Garbage(2) }

Args(suffix, payload, start, end, unreadable) ==
    [suffix |-> suffix, payload |-> payload, start_datetime |-> start,
     end_datetime |-> end, unreadable |-> unreadable]

NoArgs == Args("", "", NoBound, NoBound, {})

RECURSIVE TotalLines(_)
TotalLines(dirs) ==
    IF dirs = <<>> THEN 0
    ELSE LET d == Head(dirs)
             RECURSIVE Count(_)
             Count(fs) == IF fs = {} THEN 0
                          ELSE LET f == CHOOSE g \in fs : TRUE
                               IN  Len(d[f]) + Count(fs \ {f})
         IN  Count(DOMAIN d) + TotalLines(Tail(dirs))

\* the file layouts an archive starts from, every file empty
Layouts ==
    { << {CurrentLog, RotatedLog(1), RotatedLog(2)} >>,
      << {CurrentLog, RotatedLog(1)} >>,
      << {RotatedLog(2), RotatedLog(1)} >>,
      << {CurrentLog} >>,
      << {ExtractedFile} >>,
      << {StaleLog} >>,
      << {StaleLog}, {CurrentLog} >>,
      << {CurrentLog}, {RotatedLog(1)} >> }

\* a well-formed archive, no filter or a date-only end bound
PlainCalls ==
    { Args(".tar.bz2", "tar", NoBound, e, {}) : e \in {NoBound, DateOnly(2024, 1, 15)} }

\* every pair of bound strings
FilterCalls ==
    { Args(".tar.bz2", "tar", s, e, {}) : s \in StartStrings, e \in EndStrings }

\* every container, and files that cannot be read
ContainerCalls ==
    { Args(sfx, pl, NoBound, NoBound, {}) :
        sfx \in {".tar.bz2", ".bz2", ".tar", ".zip", ".tar.gz"},
        pl \in {"tar", "single", "corrupt"} }

FaultCalls ==
    { Args(".tar.bz2", "tar", NoBound, e, {f}) :
        e \in {NoBound, DateOnly(2024, 1, 15)},
        f \in {CurrentLog, RotatedLog(1)} }

\* The calls explored on an archive: the larger the archive, the fewer.
Calls(dirs) ==
    PlainCalls
    \cup (IF TotalLines(dirs) <= 2 THEN FaultCalls \cup FilterCalls ELSE {})
    \cup (IF TotalLines(dirs) <= 1 THEN ContainerCalls ELSE {})

\* the lines written into an archive holding n lines already
Writable(n) == IF n = 0 THEN AllLines ELSE CommonLines

-----------------------------------------------------------------------------
(* Content lines of the session analyzer and of the telemetry worker.      *)
(*                                                                         *)
(* A content line is the function from the names of the tokens written on  *)
(* it to their values: a line matches a pattern of the code exactly when   *)
(* the pattern's token is in its domain.  Optional values of a dictionary  *)
(* are sequences: None is <<>>, a present value v is <<v>>.                *)

None == <<>>

\* {}
EmptyDict == [k \in {} |-> None]

\* A written timestamp: clock is <<year, month, day, second-of-day>>, frac
\* the written fraction in microseconds (<<>> where none is written), off
\* the written offset: <<>>, <<"+", minutes>> or <<"-", minutes>>.
Stamp(clock, frac, off) == [clock |-> clock, frac |-> frac, off |-> off]

\* a line without session id taken as a line of session 7
_extract_session_id_default(line) ==
    IF "session_id" \in DOMAIN line THEN <<line["session_id"]>> ELSE <<7>>

\* re.search(session_patterns['session_id'], line): group(1), or None
_extract_session_id(line) ==
    IF "session_id" \in DOMAIN line THEN <<line["session_id"]>> ELSE None

\* SessionAnalyzer._extract_timestamp: the text of the timestamp written with
\* a fraction, cut before its offset; None without one.  The text is held as
\* <<year, month, day, second-of-day, microsecond>>: texts of one width
\* compare as strings the way these tuples compare field by field.
_extract_timestamp(line) ==
    IF "timestamp" \in DOMAIN line /\ line["timestamp"].frac # <<>>
    THEN LET s == line["timestamp"]
         IN  <<s.clock[1], s.clock[2], s.clock[3], s.clock[4], s.frac[1]>>
    ELSE None

\* datetime.fromisoformat(text.replace('Z', '+00:00')) on a timestamp text;
\* NoneDT stands for ValueError
FromIsoFormat(text) == IF ValidClock(text) THEN text ELSE NoneDT

\* (b - a).total_seconds() in microseconds, for two instants of one month
TotalSeconds(a, b) ==
    ((b[3] - a[3]) * 86400 + (b[4] - a[4])) * 1000000 + (b[5] - a[5])

\* the dictionary a session starts as; identity holds the keys unit_name,
\* server_instance and server_version once they are set
NewSession(session_id) ==
    [session_id |-> session_id, identity |-> EmptyDict, state_timeline |-> <<>>,
     network_config |-> EmptyDict, streaming_config |-> EmptyDict,
     start_time |-> None, end_time |-> None, session_duration |-> None,
     final_status |-> None, setup_duration |-> None]

\* d[k] = line[k] for every key of keys written on the line
Assign(d, line, keys) ==
    [k \in DOMAIN d \cup (keys \cap DOMAIN line) |->
        IF k \in keys \cap DOMAIN line THEN line[k] ELSE d[k]]

\* an identity field set by every line carrying it
_parse_connection_info_last(line, session) ==
    [session EXCEPT !.identity =
        Assign(@, line, {"unit_name", "server_instance", "server_version"})]

\* _parse_connection_info: a field is set by the first line carrying it
_parse_connection_info(line, session) ==
    [session EXCEPT !.identity =
        Assign(@, line, {"unit_name", "server_instance", "server_version"} \ DOMAIN @)]

\* _parse_network_config: the last line wins, audio ports accumulate
_parse_network_config(line, session) ==
    LET set == Assign(session.network_config, line,
                      {"collector_address", "ifb_address", "stun_server", "video_port"})
    IN  [session EXCEPT !.network_config =
            IF "audio_ports" \in DOMAIN line
            THEN ("audio_ports" :>
                    Append(IF "audio_ports" \in DOMAIN set THEN set["audio_ports"] ELSE <<>>,
                           line["audio_ports"])) @@ set
            ELSE set]

\* _parse_streaming_config: the last line wins
_parse_streaming_config(line, session) ==
    [session EXCEPT !.streaming_config =
        Assign(@, line, {"profile", "spare_delay", "active_links", "encryption"})]

\* every timeline entry recorded as a transition
TimelineEntry_transition(state, timestamp, type) ==
    [state |-> state, timestamp |-> timestamp, type |-> "transition", duration |-> None]

\* an element of state_timeline; duration is None until finalization
TimelineEntry(state, timestamp, type) ==
    [state |-> state, timestamp |-> timestamp, type |-> type, duration |-> None]

\* every status message taken as a final status
StatusSetsFinal_any(status) == TRUE

\* status in ['collecting', 'streaming']
StatusSetsFinal(status) == status \in {"collecting", "streaming"}

\* _parse_state_info: the four event kinds, in the order the code tests them.
\* session_stop stands for any of the three stop and disconnect patterns.
_parse_state_info(line, session, timestamp) ==
    IF timestamp = None THEN session
    ELSE
    LET s1 == IF "state_transition" \in DOMAIN line
              THEN [session EXCEPT
                      !.state_timeline = Append(@, TimelineEntry(
                          <<line["state_transition"]>>, timestamp, "transition")),
                      !.start_time = IF @ = None THEN timestamp ELSE @]
              ELSE session
        s2 == IF "readiness_change" \in DOMAIN line
              THEN [s1 EXCEPT
                      !.state_timeline = Append(@, TimelineEntry(
                          <<"Video: ", line["readiness_change"]>>, timestamp, "readiness")),
                      !.final_status = <<line["readiness_change"]>>]
              ELSE s1
        s3 == IF "status_message" \in DOMAIN line
              THEN [s2 EXCEPT
                      !.state_timeline = Append(@, TimelineEntry(
                          <<"Status: ", line["status_message"]>>, timestamp, "status")),
                      !.final_status =
                          IF StatusSetsFinal(line["status_message"])
                          THEN <<line["status_message"]>> ELSE @]
              ELSE s2
    IN  IF "session_stop" \in DOMAIN line
        THEN [s3 EXCEPT
                !.state_timeline = Append(@, TimelineEntry(
                    <<"Session Stopped">>, timestamp, "end")),
                !.end_time = IF @ = None THEN timestamp ELSE @]
        ELSE s3

\* 'streaming' in state.lower(), for the state labels of the modelled lines
MentionsStreaming(state) ==
    \E i \in 1..Len(state) : state[i] \in {"streaming", "Streaming", "StartStreaming"}

\* the subtraction made on the fields as written, whether they parse or not
Elapsed_unguarded(a, b) == <<TotalSeconds(a, b)>>

\* the entry put in front of the list whatever its timestamp
InsertByStamp_front(sorted, e) == <<e>> \o sorted

RECURSIVE InsertByStamp(_, _)
\* list.sort(key=timestamp), one element: behind every element not greater
InsertByStamp(sorted, e) ==
    IF sorted = <<>> THEN <<e>>
    ELSE IF LexLess(e.timestamp, Head(sorted).timestamp) THEN <<e>> \o sorted
    ELSE <<Head(sorted)>> \o InsertByStamp(Tail(sorted), e)

\* the timeline left in the order of encounter
SortByStamp_encounter(timeline) == timeline

RECURSIVE SortByStamp(_)
SortByStamp(timeline) ==
    IF timeline = <<>> THEN <<>>
    ELSE InsertByStamp(SortByStamp(SubSeq(timeline, 1, Len(timeline) - 1)),
                       timeline[Len(timeline)])

\* (b - a).total_seconds() inside try/except: None when either text does
\* not parse
Elapsed(a, b) ==
    IF FromIsoFormat(a) = NoneDT \/ FromIsoFormat(b) = NoneDT THEN None
    ELSE <<TotalSeconds(FromIsoFormat(a), FromIsoFormat(b))>>

\* _finalize_session: sorts the timeline, then the three durations
_finalize_session(session) ==
    IF session.state_timeline = <<>> THEN session
    ELSE
    LET sorted == SortByStamp(session.state_timeline)
        timeline == [i \in 1..Len(sorted) |->
                        IF i < Len(sorted)
                        THEN [sorted[i] EXCEPT !.duration =
                                Elapsed(sorted[i].timestamp, sorted[i + 1].timestamp)]
                        ELSE sorted[i]]
        streaming_states == SelectSeq(timeline, LAMBDA e : MentionsStreaming(e.state))
        end_time_str == IF session.end_time # None THEN session.end_time
                        ELSE timeline[Len(timeline)].timestamp
    IN  [session EXCEPT
            !.state_timeline = timeline,
            !.setup_duration =
                IF /\ session.start_time # None
                   /\ session.final_status = <<"streaming">>
                   /\ streaming_states # <<>>
                THEN Elapsed(session.start_time, streaming_states[1].timestamp)
                ELSE @,
            !.session_duration =
                IF session.start_time # None
                THEN Elapsed(session.start_time, end_time_str)
                ELSE @]

RECURSIVE ScanSessions(_, _)
\* the loop of _parse_sessions: sessions in the order of first appearance; a
\* line without a session id is passed over
ScanSessions(lines, sessions) ==
    IF lines = <<>> THEN sessions
    ELSE
    LET line == Head(lines)
        session_id == _extract_session_id(line)
        known == IF \E i \in DOMAIN sessions : sessions[i].session_id = session_id[1]
                 THEN sessions
                 ELSE Append(sessions, NewSession(session_id[1]))
        at == CHOOSE i \in DOMAIN known : known[i].session_id = session_id[1]
        session == _parse_state_info(line,
                        _parse_streaming_config(line,
                            _parse_network_config(line,
                                _parse_connection_info(line, known[at]))),
                        _extract_timestamp(line))
    IN  IF session_id = None THEN ScanSessions(Tail(lines), sessions)
        ELSE ScanSessions(Tail(lines), [known EXCEPT ![at] = session])

RECURSIVE InsertByStart(_, _)
\* sorted(key=start_time or ''), one element: '' sorts before every text
InsertByStart(sorted, s) ==
    IF sorted = <<>> THEN <<s>>
    ELSE IF \/ LexLess(s.start_time, Head(sorted).start_time)
            \/ s.start_time = None /\ Head(sorted).start_time # None
         THEN <<s>> \o sorted
    ELSE <<Head(sorted)>> \o InsertByStart(Tail(sorted), s)

RECURSIVE SortByStart(_)
SortByStart(sessions) ==
    IF sessions = <<>> THEN <<>>
    ELSE InsertByStart(SortByStart(SubSeq(sessions, 1, Len(sessions) - 1)),
                       sessions[Len(sessions)])

\* _parse_sessions(content)
_parse_sessions(lines) ==
    LET sessions == ScanSessions(lines, <<>>)
    IN  SortByStart([i \in 1..Len(sessions) |-> _finalize_session(sessions[i])])

\* datetime.fromisoformat(str.replace(' ', 'T')) on a bound string: the three
\* layouts parse, a date alone to midnight; NoneDT stands for ValueError
FromIsoBound(str) ==
    IF str.layout \in {"date", "date_hm", "date_hms"}
    THEN <<str.clock[1], str.clock[2], str.clock[3],
           SecOfDay(str.clock[4], str.clock[5], str.clock[6]), 0>>
    ELSE NoneDT

\* every session with a start time kept
KeepSession_open(session, start_datetime, end_datetime) == session.start_time # None

\* the body of the loop of _filter_sessions_by_datetime: the session is kept
KeepSession(session, start_datetime, end_datetime) ==
    IF session.start_time = None THEN FALSE
    ELSE LET session_dt == FromIsoFormat(session.start_time)
             start_dt == FromIsoBound(start_datetime)
             end_dt == FromIsoBound(end_datetime)
         IN  IF session_dt = NoneDT THEN TRUE
             ELSE IF start_datetime.layout # "none" /\ start_dt = NoneDT THEN TRUE
             ELSE IF start_datetime.layout # "none" /\ Before(session_dt, start_dt) THEN FALSE
             ELSE IF end_datetime.layout # "none" /\ end_dt = NoneDT THEN TRUE
             ELSE IF end_datetime.layout # "none" /\ Before(end_dt, session_dt) THEN FALSE
             ELSE TRUE

_filter_sessions_by_datetime(sessions, start_datetime, end_datetime) ==
    IF start_datetime.layout = "none" /\ end_datetime.layout = "none" THEN sessions
    ELSE SelectSeq(sessions, LAMBDA s : KeepSession(s, start_datetime, end_datetime))

\* _calculate_avg_setup_time and _calculate_avg_session_duration on the list
\* of the sessions' values: <<sum, count>> stands for sum / count, None and 0
\* are falsy and left out
Average(values) ==
    LET durations == SelectSeq(values, LAMBDA d : d # None /\ d # <<0>>)
    IN  IF durations = <<>> THEN None
        ELSE <<SeqSum([i \in 1..Len(durations) |-> durations[i][1]]), Len(durations)>>

\* An uploaded file: the suffix of its name, what its bytes are ("tar" a
\* bzip2 tar holding one log, "bz2" a bzip2 text, "text" a plain text) and
\* the lines of the log.
File(suffix, payload, lines) == [suffix |-> suffix, payload |-> payload, lines |-> lines]

\* _extract_file_content: the branch follows the name, the bytes must agree
_extract_file_content(file) ==
    IF EndsWith(file.suffix, ".tar.bz2") \/ EndsWith(file.suffix, ".tar")
    THEN IF file.payload = "tar" THEN [raised |-> "", lines |-> file.lines]
         ELSE [raised |-> "ReadError", lines |-> <<>>]
    ELSE IF EndsWith(file.suffix, ".bz2")
    THEN IF file.payload = "text" THEN [raised |-> "OSError", lines |-> <<>>]
         ELSE [raised |-> "", lines |-> file.lines]
    ELSE [raised |-> "", lines |-> file.lines]

\* every session that is not streaming counted as failed
FailedSession_rest(s) == s.final_status # <<"streaming">>

\* s.get('final_status') not in ['streaming', 'collecting']
FailedSession(s) == s.final_status \notin {<<"streaming">>, <<"collecting">>}

\* the dictionary analyze_file returns
Analysis(success, error, sessions) ==
    [success |-> success, error |-> error, sessions |-> sessions,
     total_sessions |-> IF success THEN <<Len(sessions)>> ELSE None,
     successful_sessions |->
        IF success
        THEN <<Len(SelectSeq(sessions, LAMBDA s : s.final_status = <<"streaming">>))>>
        ELSE None,
     failed_sessions |->
        IF success
        THEN <<Len(SelectSeq(sessions, FailedSession))>>
        ELSE None,
     avg_setup_time |->
        Average([i \in 1..Len(sessions) |-> sessions[i].setup_duration]),
     avg_session_duration |->
        Average([i \in 1..Len(sessions) |-> sessions[i].session_duration])]

\* SessionAnalyzer.analyze_file
analyze_file(file, start_datetime, end_datetime) ==
    LET content == _extract_file_content(file)
    IN  IF content.raised # "" THEN Analysis(FALSE, content.raised, <<>>)
        ELSE Analysis(TRUE, "",
                _filter_sessions_by_datetime(_parse_sessions(content.lines),
                                             start_datetime, end_datetime))

-----------------------------------------------------------------------------
(* The telemetry worker: parse_content and filter_metrics_by_time_range.   *)

\* A bandwidth token "potentialBW <int>[.<frac>]<unit>bps": int and frac are
\* the digit sequences written, unit the word characters before "bps".
Bandwidth(int, frac, unit) == [int |-> int, frac |-> frac, unit |-> unit]

\* (\d+(?:\.\d+)?)(\w+bps) on a bandwidth token: \w+ takes at least one
\* character, so with no unit letter the last digit written goes to the unit
\* group.  <<>> stands for no match.
BandwidthGroups(bw) ==
    IF bw.unit # "" THEN <<[int |-> bw.int, frac |-> bw.frac, unit |-> bw.unit]>>
    ELSE IF Len(bw.frac) >= 2
    THEN <<[int |-> bw.int, frac |-> SubSeq(bw.frac, 1, Len(bw.frac) - 1), unit |-> "digit"]>>
    ELSE IF bw.frac = <<>> /\ Len(bw.int) >= 2
    THEN <<[int |-> SubSeq(bw.int, 1, Len(bw.int) - 1), frac |-> <<>>, unit |-> "digit"]>>
    ELSE <<>>

\* the tokens of patterns['modem_stats'] behind the timestamp
StatsTokens ==
    {"modem", "potentialBW", "loss", "upstream_delay", "shortest_rtt",
     "smooth_rtt", "min_rtt"}

\* patterns['modem_stats'].search(line): a timestamp with fraction and
\* numeric offset, then every token
ModemMatch(line) ==
    /\ "timestamp" \in DOMAIN line
    /\ line["timestamp"].frac # <<>>
    /\ line["timestamp"].off # <<>>
    /\ StatsTokens \subseteq DOMAIN line
    /\ BandwidthGroups(line["potentialBW"]) # <<>>

RECURSIVE Digits(_)
\* int() of a digit sequence
Digits(ds) == IF ds = <<>> THEN 0 ELSE Digits(SubSeq(ds, 1, Len(ds) - 1)) * 10 + ds[Len(ds)]

\* float() of the value group, in thousandths (up to three fraction digits)
Thousandths(g) ==
    Digits(g.int) * 1000
      + Digits(g.frac \o [i \in 1..(3 - Len(g.frac)) |-> 0])

\* convert_bandwidth_to_mbps(value, unit), in millionths of a Mbps, value in
\* thousandths; unit is lower-cased first
convert_bandwidth_to_mbps(value, unit) ==
    LET lower == CASE unit \in {"k", "K"} -> "kbps"
                   [] unit \in {"m", "M"} -> "mbps"
                   [] unit \in {"g", "G"} -> "gbps"
                   [] unit = "" -> "bps"
                   [] OTHER -> "other"
    IN  CASE lower = "kbps" -> value
          [] lower = "mbps" -> value * 1000
          [] lower = "gbps" -> value * 1000000
          [] lower = "bps" -> value \div 1000
          [] OTHER -> value * 1000

\* parse_timestamp: a '+' offset is cut off and the rest parsed as a naive
\* datetime; a '-' offset stays in the text and fromisoformat yields an
\* aware datetime.  tz is None for a naive datetime, else <<utcoffset in
\* minutes>>.  None stands for the ValueError branch.
parse_timestamp(stamp) ==
    LET clock == <<stamp.clock[1], stamp.clock[2], stamp.clock[3], stamp.clock[4],
                   stamp.frac[1]>>
    IN  IF ~ValidClock(clock) THEN None
        ELSE IF stamp.off[1] = "+" THEN <<[instant |-> clock, tz |-> None]>>
        ELSE <<[instant |-> clock, tz |-> <<0 - stamp.off[2]>>]>>

\* the record parse_content appends for a matching line
Metric(line, timestamp) ==
    LET g == BandwidthGroups(line["potentialBW"])[1]
    IN  [time |-> timestamp, modem_id |-> line["modem"],
         bandwidth_mbps |-> convert_bandwidth_to_mbps(Thousandths(g), g.unit),
         packet_loss_percent |-> line["loss"],
         upstream_delay_ms |-> line["upstream_delay"],
         shortest_rtt_ms |-> line["shortest_rtt"],
         smooth_rtt_ms |-> line["smooth_rtt"],
         min_rtt_ms |-> line["min_rtt"]]

RECURSIVE parse_content_carry(_)
\* parse_content matching over two lines: a token missing on a line is taken
\* from the line behind it
parse_content_carry(lines) ==
    IF lines = <<>> THEN <<>>
    ELSE LET line == IF Len(lines) >= 2 THEN Head(lines) @@ lines[2] ELSE Head(lines)
             timestamp == parse_timestamp(line["timestamp"])
         IN  IF ModemMatch(line) /\ timestamp # None
             THEN <<Metric(line, timestamp[1])>> \o parse_content_carry(Tail(lines))
             ELSE parse_content_carry(Tail(lines))

RECURSIVE parse_content(_)
\* parse_content: one search of patterns['modem_stats'] per line
parse_content(lines) ==
    IF lines = <<>> THEN <<>>
    ELSE LET line == Head(lines)
             timestamp == parse_timestamp(line["timestamp"])
         IN  IF ModemMatch(line) /\ timestamp # None
             THEN <<Metric(line, timestamp[1])>> \o parse_content(Tail(lines))
             ELSE parse_content(Tail(lines))

\* parse_log_file: tar.bz2, then plain bz2, then plain text; every fallback
\* ends in parse_content on the lines of the log
parse_log_file(file) == parse_content(file.lines)

\* datetime.isoformat() of a naive datetime, and fromisoformat() on that text
IsoFormat(dt) ==
    [layout |-> IF dt[5] = 0 THEN "iso" ELSE "iso_frac",
     clock |-> <<dt[1], dt[2], dt[3], dt[4]>>, frac |-> dt[5]]

FromIsoText(text) ==
    IF ~ValidClock(text.clock) THEN NoneDT
    ELSE <<text.clock[1], text.clock[2], text.clock[3], text.clock[4],
           IF text.layout = "iso_frac" THEN text.frac ELSE 0>>

\* time_range of a job: each bound None or <<the isoformat text>>
TimeRange(start, end) == [start |-> start, end |-> end]

\* filter_metrics_by_time_range; comparing an aware metric time with a naive
\* bound raises TypeError, which leaves the function
filter_metrics_by_time_range(metrics, time_range) ==
    LET start_time == IF time_range.start = None THEN NoneDT
                      ELSE FromIsoText(time_range.start[1])
        end_time == IF time_range.end = None THEN NoneDT
                    ELSE FromIsoText(time_range.end[1])
        Inside(m) == /\ ~(start_time # NoneDT /\ Before(m.time.instant, start_time))
                     /\ ~(end_time # NoneDT /\ Before(end_time, m.time.instant))
    IN  IF start_time = NoneDT /\ end_time = NoneDT
        THEN [raised |-> "", metrics |-> metrics]
        ELSE IF \E i \in 1..Len(metrics) : metrics[i].time.tz # None
        THEN [raised |-> "TypeError", metrics |-> <<>>]
        ELSE [raised |-> "", metrics |-> SelectSeq(metrics, Inside)]

\* upload_log's parse of time_start / time_end: the format follows the
\* blanks and colons of the string; NoneDT stands for None
UploadBound(str, is_end) ==
    IF str.layout \notin {"date", "date_hm", "date_hms"} THEN NoneDT
    ELSE LET dt == StrpBound(str, str.layout)
         IN  IF is_end /\ str.layout = "date" THEN EndOfDay(dt) ELSE dt

\* job_data as upload_log pushes it
JobData(object, time_start, time_end) ==
    [object_name |-> object,
     time_range |-> TimeRange(
        IF UploadBound(time_start, FALSE) = NoneDT THEN None
        ELSE <<IsoFormat(UploadBound(time_start, FALSE))>>,
        IF UploadBound(time_end, TRUE) = NoneDT THEN None
        ELSE <<IsoFormat(UploadBound(time_end, TRUE))>>)]

\* a row of the sessions table
Row(status, metrics_count, error_message) ==
    [status |-> status, metrics_count |-> metrics_count, error_message |-> error_message]

-----------------------------------------------------------------------------
(* The content lines and the calls explored for the analyzer and the       *)
(* worker.                                                                 *)

\* 2024-01-15T10:00:<sec>.000000+02:00
EventStamp(sec) == Stamp(<<2024, 1, 15, 36000 + sec>>, <<0>>, <<"+", 120>>)

\* ... potentialBW 1500kbps ... loss (2%) ... (14ms) ... (30ms) ... (32ms) ... (29ms)
StatsBody ==
    ("modem" :> 0) @@ ("potentialBW" :> Bandwidth(<<1, 5, 0, 0>>, <<>>, "k"))
      @@ ("loss" :> 2) @@ ("upstream_delay" :> 14) @@ ("shortest_rtt" :> 30)
      @@ ("smooth_rtt" :> 32) @@ ("min_rtt" :> 29)

\* SESSION ID: 7, entering state "Connecting"
SessionTransition ==
    ("session_id" :> 7) @@ ("timestamp" :> EventStamp(0))
      @@ ("state_transition" :> "Connecting")
\* SESSION ID: 7, Got readiness: {'video': 'streaming'}
SessionStreaming ==
    ("session_id" :> 7) @@ ("timestamp" :> EventStamp(5))
      @@ ("readiness_change" :> "streaming")
\* SESSION ID: 7, Stop command from the lu100 GUI
SessionStop ==
    ("session_id" :> 7) @@ ("timestamp" :> EventStamp(9)) @@ ("session_stop" :> TRUE)
\* SESSION ID: 8 on a line without timestamp, naming the unit
SessionOther == ("session_id" :> 8) @@ ("unit_name" :> "LU800")
\* a transition and a unit name on a line without session id
OrphanEvent ==
    ("timestamp" :> EventStamp(0)) @@ ("state_transition" :> "Connecting")
      @@ ("unit_name" :> "LU800")
\* a modem statistics line
StatsLine == ("timestamp" :> EventStamp(0)) @@ StatsBody
\* a modem statistics line stamped ...-05:00
StatsWest ==
    ("timestamp" :> Stamp(<<2024, 1, 15, 36005>>, <<0>>, <<"-", 300>>)) @@ StatsBody
\* a modem statistics line without the loss token
StatsNoLoss ==
    [k \in DOMAIN StatsLine \ {"loss"} |-> StatsLine[k]]
\* a modem statistics line whose timestamp has no offset
StatsNoOffset ==
    ("timestamp" :> Stamp(<<2024, 1, 15, 36000>>, <<0>>, <<>>)) @@ StatsBody
\* a line with none of the tokens
Noise == EmptyDict
\* a modem statistics line with the given bandwidth token
StatsWith(bw) == ("timestamp" :> EventStamp(0)) @@ ("potentialBW" :> bw) @@ StatsBody
\* 15.5Mbps, 2Gbps, 250Kbps, 1500bps, 5bps, 7xbps
Bandwidths ==
    { Bandwidth(<<1, 5>>, <<5>>, "M"), Bandwidth(<<2>>, <<>>, "G"),
      Bandwidth(<<2, 5, 0>>, <<>>, "K"), Bandwidth(<<1, 5, 0, 0>>, <<>>, ""),
      Bandwidth(<<5>>, <<>>, ""), Bandwidth(<<7>>, <<>>, "x") }
\* a line carrying a timestamp and the loss token only
LossOnly == ("timestamp" :> EventStamp(0)) @@ ("loss" :> 2)

\* a line of session 7 stamped 10:00:<sec> carrying one event token
SessionEvent(sec, token, value) ==
    ("session_id" :> 7) @@ ("timestamp" :> EventStamp(sec)) @@ (token :> value)

\* the lines written behind n lines of content: the longer, the fewer
Sayable(n) ==
    {SessionTransition, SessionStreaming, OrphanEvent, StatsLine, StatsNoLoss, Noise}
    \cup (IF n <= 1
          THEN { SessionEvent(3, "status_message", "streaming"),
                 SessionEvent(4, "status_message", "connected"),
                 SessionEvent(6, "readiness_change", "idle"),
                 SessionEvent(4, "session_stop", TRUE),
                 [SessionEvent(3, "state_transition", "Connecting") EXCEPT !["session_id"] = 8],
                 ("session_id" :> 8) @@ ("unit_name" :> "LU600")
                    @@ ("server_version" :> "7.1.C1.G2") }
          ELSE {})
    \cup (IF n = 0 THEN {SessionStop, SessionOther, StatsWest, StatsNoOffset, LossOnly}
                      \cup { StatsWith(bw) : bw \in Bandwidths }
                      \cup { ("timestamp" :> EventStamp(5)) @@ StatsBody }
                      \cup { SessionEvent(7, "state_transition", "Connected"),
                             SessionEvent(1, "state_transition", "StartStreaming"),
                             ("session_id" :> 7)
                                @@ ("timestamp" :> Stamp(<<2024, 13, 15, 36002>>, <<0>>, <<"+", 120>>))
                                @@ ("status_message" :> "connected"),
                             SessionEvent(2, "status_message", "collecting"),
                             ("session_id" :> 7) @@ ("readiness_change" :> "streaming") }
          ELSE {})

\* the calls of analyze_file explored on a content
AnalyzeCalls(lines, after_job) ==
    { <<File(".log", "text", lines), NoBound, NoBound>> }
    \cup (IF after_job THEN {}
          ELSE { <<f, NoBound, NoBound>> :
                    f \in { File(".tar.bz2", "tar", lines), File(".bz2", "bz2", lines),
                            File(".tar.bz2", "text", lines) } }
               \cup { <<File(".log", "text", lines), s, e>> :
                        s \in {NoBound, DateHM(2024, 1, 15, 10, 0),
                               DateHMS(2024, 1, 15, 10, 0, 5), Garbage(1)},
                        e \in {NoBound, DateOnly(2024, 1, 15),
                               DateHMS(2024, 1, 15, 10, 0, 5), Garbage(1)} })

\* the uploads explored on a content: upload_log accepts these suffixes only
Uploads(lines) ==
    { <<f, s, e>> :
        f \in { File(".tar.bz2", "tar", lines), File(".bz2", "bz2", lines) },
        s \in {NoBound, DateHMS(2024, 1, 15, 10, 0, 5), Garbage(1)},
        e \in {NoBound, DateOnly(2024, 1, 15)}
              \cup (IF Len(lines) <= 2 THEN {DateHMS(2024, 1, 15, 10, 0, 5)} ELSE {}) }

ParseInit ==
    /\ log_content = <<>>
    /\ analysis = None
    /\ uploaded = None
    /\ row = Row("absent", None, None)
    /\ parse_queue = <<>>
    /\ job_data = None
    /\ wpc = "idle"
    /\ job_metrics = <<>>
    /\ last_error = ""
    /\ bandwidth_metrics = <<>>

-----------------------------------------------------------------------------
(* merge_messages_logs, step by step.                                      *)

\* the state before merge_messages_logs is called, for the given file layouts
MergeInit(layouts) ==
    /\ disk \in { [k \in 1..Len(lay) |-> [f \in lay[k] |-> <<>>]] : lay \in layouts }
    /\ inp = NoArgs
    /\ pc = "idle"
    /\ tempExists = FALSE
    /\ extracted = <<>>
    /\ range = <<NoneDT, NoneDT>>
    /\ log_directory = 0
    /\ log_files = <<>>
    /\ all_lines = <<>>
    /\ counters = [total_lines |-> 0, filtered_count |-> 0]
    /\ raised = ""
    /\ result = NoResult

Init == MergeInit(Layouts) /\ ParseInit

\* Before the call: the unit appends a line to one of the archive's files.
WriteLine ==
    /\ pc = "idle"
    /\ TotalLines(disk) < MaxLines
    /\ \E k \in DOMAIN disk : \E f \in DOMAIN disk[k] :
       \E line \in Writable(TotalLines(disk)) :
          disk' = [disk EXCEPT ![k][f] = Append(@, line)]
    /\ UNCHANGED <<inp, pc, tempExists, extracted, range, log_directory, log_files,
                   all_lines, counters, raised, result>>
    /\ UNCHANGED parseVars

\* The call: parse_date_range, then the TemporaryDirectory is entered.
EnterScope ==
    /\ pc = "idle"
    /\ \E call \in Calls(disk) :
          /\ inp' = call
          /\ range' = parse_date_range(call.start_datetime, call.end_datetime)
    /\ tempExists' = TRUE
    /\ pc' = "extract"
    /\ UNCHANGED <<disk, extracted, log_directory, log_files, all_lines, counters,
                   raised, result>>
    /\ UNCHANGED parseVars

\* extract_archive(archive_path, temp_dir): unpacks, or raises.
ExtractArchive ==
    /\ pc = "extract"
    /\ LET x == extract_archive([suffix |-> inp.suffix, payload |-> inp.payload,
                                 dirs |-> disk])
       IN  /\ extracted' = x.members
           /\ raised' = x.raised
           /\ pc' = IF x.raised = "" THEN "walk" ELSE "raised"
    /\ UNCHANGED <<disk, inp, tempExists, range, log_directory, log_files, all_lines,
                   counters, result>>
    /\ UNCHANGED parseVars

\* os.walk for the log directory, then get_messages_log_files on the first.
FindLogFiles ==
    /\ pc = "walk"
    /\ LET log_dirs == LogDirs(extracted, 1)
       IN  IF log_dirs = <<>>
           THEN /\ result' = Failure(<<"No messages.log files found in archive">>)
                /\ pc' = "return"
                /\ UNCHANGED <<log_directory, log_files>>
           ELSE /\ log_directory' = log_dirs[1]
                /\ \E globbed \in GlobOrders(extracted[log_dirs[1]]) :
                      log_files' = get_messages_log_files(extracted[log_dirs[1]], globbed)
                /\ IF log_files' = <<>>
                   THEN /\ result' = Failure(<<"No messages.log files found">>)
                        /\ pc' = "return"
                   ELSE /\ result' = result
                        /\ pc' = "read"
    /\ UNCHANGED <<disk, inp, tempExists, extracted, range, all_lines, counters, raised>>
    /\ UNCHANGED parseVars

\* The loop over log_files: read each file, keep or filter each non-blank line.
ReadAndFilter ==
    /\ pc = "read"
    /\ LET acc == ScanFiles(log_files, extracted[log_directory], inp.unreadable,
                            range[1], range[2],
                            [all_lines |-> <<>>, total_lines |-> 0, filtered_count |-> 0])
       IN  /\ all_lines' = acc.all_lines
           /\ counters' = [total_lines |-> acc.total_lines,
                           filtered_count |-> acc.filtered_count]
    /\ pc' = "emit"
    /\ UNCHANGED <<disk, inp, tempExists, extracted, range, log_directory, log_files,
                   raised, result>>
    /\ UNCHANGED parseVars

\* The sort, the merged content and the metadata.
SortAndEmit ==
    /\ pc = "emit"
    /\ all_lines' = SortByTimestamp(all_lines)
    /\ result' = Success(
            HeaderLines(range[1], range[2], Len(all_lines'), counters.total_lines,
                        Len(log_files))
              \o EmitLines(all_lines', NoFile),
            Metadata(log_files, all_lines', counters.total_lines,
                     counters.filtered_count, range[1], range[2], log_directory))
    /\ pc' = "return"
    /\ UNCHANGED <<disk, inp, tempExists, extracted, range, log_directory, log_files,
                   counters, raised>>
    /\ UNCHANGED parseVars

\* TemporaryDirectory.__exit__: the directory and what was unpacked are deleted
Cleanup == /\ tempExists' = FALSE
           /\ extracted' = <<>>

\* A return statement inside the with block: the block is left, then the
\* dictionary goes to the caller.
ExitScope ==
    /\ pc = "return"
    /\ Cleanup
    /\ pc' = "done"
    /\ UNCHANGED <<disk, inp, range, log_directory, log_files, all_lines, counters,
                   raised, result>>
    /\ UNCHANGED parseVars

\* HandleException with a scratch directory that only the success path removes
HandleExceptionLeak ==
    /\ pc = "raised"
    /\ result' = Failure(<<"Error processing archive", raised>>)
    /\ pc' = "done"
    /\ UNCHANGED <<disk, inp, tempExists, extracted, range, log_directory, log_files,
                   all_lines, counters, raised>>
    /\ UNCHANGED parseVars

\* An exception leaves the with block and reaches "except Exception as e".
HandleException ==
    /\ pc = "raised"
    /\ Cleanup
    /\ result' = Failure(<<"Error processing archive", raised>>)
    /\ pc' = "done"
    /\ UNCHANGED <<disk, inp, range, log_directory, log_files, all_lines, counters,
                   raised>>
    /\ UNCHANGED parseVars

Next ==
    \/ WriteLine
    \/ EnterScope
    \/ ExtractArchive
    \/ FindLogFiles
    \/ ReadAndFilter
    \/ SortAndEmit
    \/ ExitScope
    \/ HandleException

Spec == Init /\ [][Next]_vars

-----------------------------------------------------------------------------
(* The analyzer endpoint, the upload endpoint and the worker's process_job. *)

\* Before any call: a line is added to the log that will be submitted.
AppendLine ==
    /\ analysis = None
    /\ row.status = "absent"
    /\ Len(log_content) < MaxContent
    /\ \E line \in Sayable(Len(log_content)) : log_content' = Append(log_content, line)
    /\ UNCHANGED <<analysis, uploaded, row, parse_queue, job_data, wpc, job_metrics, last_error,
                   bandwidth_metrics>>
    /\ UNCHANGED mergeVars

\* analyze_sessions in main.py: analyzer.analyze_file on the submitted file;
\* the call is explored before any upload and behind a completed job
AnalyzeFile ==
    /\ analysis = None
    /\ wpc = "idle"
    /\ parse_queue = <<>>
    /\ row.status \in {"absent", "completed"}
    /\ \E call \in AnalyzeCalls(log_content, row.status # "absent") :
          analysis' = <<[file |-> call[1], start_datetime |-> call[2],
                         end_datetime |-> call[3],
                         result |-> analyze_file(call[1], call[2], call[3])]>>
    /\ UNCHANGED <<log_content, uploaded, row, parse_queue, job_data, wpc, job_metrics, last_error,
                   bandwidth_metrics>>
    /\ UNCHANGED mergeVars

\* upload_log: the object is stored, the row inserted as 'queued', then the
\* job pushed (lpush) to parse_queue
UploadLog ==
    /\ row.status = "absent"
    /\ analysis = None
    /\ \E call \in Uploads(log_content) :
          /\ uploaded' = <<call[1]>>
          /\ parse_queue' = <<JobData("raw", call[2], call[3])>> \o parse_queue
    /\ row' = Row("queued", None, None)
    /\ UNCHANGED <<log_content, analysis, job_data, wpc, job_metrics, last_error, bandwidth_metrics>>
    /\ UNCHANGED mergeVars

\* run: brpop takes the job at the tail of parse_queue
TakeJob ==
    /\ wpc = "idle"
    /\ parse_queue # <<>>
    /\ job_data' = <<parse_queue[Len(parse_queue)]>>
    /\ parse_queue' = SubSeq(parse_queue, 1, Len(parse_queue) - 1)
    /\ wpc' = "start"
    /\ UNCHANGED <<log_content, analysis, uploaded, row, job_metrics, last_error, bandwidth_metrics>>
    /\ UNCHANGED mergeVars

\* process_job: update_session_status(session_id, 'processing'), which the
\* database may refuse
MarkProcessing ==
    /\ wpc = "start"
    /\ \/ /\ row' = [row EXCEPT !.status = "processing"]
          /\ wpc' = "fetch"
          /\ last_error' = last_error
       \/ /\ row' = row
          /\ wpc' = "except"
          /\ last_error' = "update_session_status"
    /\ UNCHANGED <<log_content, analysis, uploaded, parse_queue, job_data, job_metrics,
                   bandwidth_metrics>>
    /\ UNCHANGED mergeVars

\* process_job: fget_object (which the store may refuse), parse_log_file and
\* the time-range filter
FetchAndParse ==
    /\ wpc = "fetch"
    /\ \/ /\ last_error' = "fget_object"
          /\ wpc' = "except"
          /\ job_metrics' = job_metrics
       \/ LET parsed == parse_log_file(uploaded[1])
              time_range == job_data[1].time_range
              filtered == IF time_range.start # None \/ time_range.end # None
                          THEN filter_metrics_by_time_range(parsed, time_range)
                          ELSE [raised |-> "", metrics |-> parsed]
          IN  IF filtered.raised # ""
              THEN /\ last_error' = filtered.raised
                   /\ wpc' = "except"
                   /\ job_metrics' = parsed
              ELSE /\ last_error' = last_error
                   /\ wpc' = "save"
                   /\ job_metrics' = filtered.metrics
    /\ UNCHANGED <<log_content, analysis, uploaded, row, parse_queue, job_data,
                   bandwidth_metrics>>
    /\ UNCHANGED mergeVars

\* SaveAndComplete with save_metrics called on an empty list as well
SaveAndCompleteAlways ==
    /\ wpc = "save"
    /\ \/ /\ bandwidth_metrics' = bandwidth_metrics \o job_metrics
          /\ row' = [row EXCEPT !.status = "completed",
                                !.metrics_count = <<Len(job_metrics)>>]
          /\ wpc' = "idle"
          /\ last_error' = last_error
       \/ /\ bandwidth_metrics' = bandwidth_metrics
          /\ row' = row
          /\ wpc' = "except"
          /\ last_error' = "save_metrics"
    /\ UNCHANGED <<log_content, analysis, uploaded, parse_queue, job_data, job_metrics>>
    /\ UNCHANGED mergeVars

\* process_job: save_metrics when there are metrics, then the 'completed'
\* update with the count; either call may be refused by the database
SaveAndComplete ==
    /\ wpc = "save"
    /\ \/ /\ bandwidth_metrics' = bandwidth_metrics \o job_metrics
          /\ row' = [row EXCEPT !.status = "completed",
                                !.metrics_count = <<Len(job_metrics)>>]
          /\ wpc' = "idle"
          /\ last_error' = last_error
       \/ /\ job_metrics # <<>>
          /\ bandwidth_metrics' = bandwidth_metrics
          /\ row' = row
          /\ wpc' = "except"
          /\ last_error' = "save_metrics"
       \/ /\ bandwidth_metrics' = bandwidth_metrics \o job_metrics
          /\ row' = row
          /\ wpc' = "except"
          /\ last_error' = "update_session_status"
    /\ UNCHANGED <<log_content, analysis, uploaded, parse_queue, job_data, job_metrics>>
    /\ UNCHANGED mergeVars

\* FailJob with an except branch that prints the error and leaves the row
FailJob_printed ==
    /\ wpc = "except"
    /\ row' = row
    /\ last_error' = last_error
    /\ wpc' = "idle"
    /\ UNCHANGED <<log_content, analysis, uploaded, parse_queue, job_data, job_metrics,
                   bandwidth_metrics>>
    /\ UNCHANGED mergeVars

\* process_job's except branch: the 'failed' update with the message; when
\* that update is refused too its exception reaches run(), which prints it
FailJob ==
    /\ wpc = "except"
    /\ \/ /\ row' = [row EXCEPT !.status = "failed", !.error_message = <<last_error>>]
          /\ last_error' = last_error
       \/ /\ row' = row
          /\ last_error' = "update_session_status"
    /\ wpc' = "idle"
    /\ UNCHANGED <<log_content, analysis, uploaded, parse_queue, job_data, job_metrics,
                   bandwidth_metrics>>
    /\ UNCHANGED mergeVars

ParseNext ==
    \/ AppendLine
    \/ AnalyzeFile
    \/ UploadLog
    \/ TakeJob
    \/ MarkProcessing
    \/ FetchAndParse
    \/ SaveAndComplete
    \/ FailJob

InitParse == MergeInit({<<{CurrentLog}>>}) /\ ParseInit

ParseSpec == InitParse /\ [][ParseNext]_vars

\* the steps of the worker: run() loops for ever and process_job runs on
Worker == TakeJob \/ MarkProcessing \/ FetchAndParse \/ SaveAndComplete \/ FailJob

\* Before the upload: a line without session id is added to the log; the
\* worker's parse_content searches modem_stats only
AppendTelemetry ==
    /\ row.status = "absent"
    /\ Len(log_content) < MaxContent
    /\ \E line \in { l \in Sayable(Len(log_content)) : "session_id" \notin DOMAIN l } :
          log_content' = Append(log_content, line)
    /\ UNCHANGED <<analysis, uploaded, row, parse_queue, job_data, wpc, job_metrics, last_error,
                   bandwidth_metrics>>
    /\ UNCHANGED mergeVars

\* the upload endpoint and the worker, without the analyzer endpoint
WorkerNext ==
    \/ AppendTelemetry
    \/ UploadLog
    \/ Worker

\* the upload endpoint and a worker that keeps running
WorkerSpec == InitParse /\ [][WorkerNext]_vars /\ WF_vars(Worker)

-----------------------------------------------------------------------------
(* Vocabulary of the properties of the merge.                              *)

\* the call has returned a successful dictionary
Returned == pc = "done" /\ result.success

FilterActive == range[1] # NoneDT \/ range[2] # NoneDT

\* the directory the merge read (the archive is not modified by the merge)
LogDir == disk[log_directory]

\* the log family of that directory
Sources == {f \in DOMAIN LogDir : f = CurrentLog \/ IsRotatedSegment(f)}

RotationOf(f) == IF f.rot = <<>> THEN 0 ELSE f.rot[1]

\* the lines the reader delivered for a source
LinesRead(f) == read_log_file(LogDir, f, inp.unreadable)

\* the non-blank lines delivered, each as <<source, index in the source>>
Occurrences ==
    UNION { { <<f, i>> : i \in {j \in 1..Len(LinesRead(f)) : ~IsBlank(LinesRead(f)[j])} }
            : f \in Sources }

TextOf(o) == LinesRead(o[1])[o[2]]

InstantOf(o) == extract_timestamp(TextOf(o))

\* o1 comes before o2 in the reference order: by instant, then sources in
\* rotation-descending order, then position in the file
Precedes(o1, o2) ==
    \/ Before(InstantOf(o1), InstantOf(o2))
    \/ /\ InstantOf(o1) = InstantOf(o2)
       /\ \/ RotationOf(o1[1]) > RotationOf(o2[1])
          \/ o1[1] = o2[1] /\ o1[2] < o2[2]

Rank(o, P) == 1 + Cardinality({q \in P : Precedes(q, o)})

IsLineItem(it) == it.kind = "line"

\* the log lines of the merged content, in order
ContentLines ==
    LET items == SelectSeq(result.content, IsLineItem)
    IN  [k \in 1..Len(items) |-> items[k].val]

\* how often the text occurs among the lines delivered for f / retained from f
TimesRead(f, text) ==
    Cardinality({i \in 1..Len(LinesRead(f)) : LinesRead(f)[i] = text})

TimesKept(f, text) ==
    Cardinality({k \in 1..Len(all_lines) : all_lines[k].file = f /\ all_lines[k].line = text})

\* the instant lies within the bounds that parsed
WithinBounds(t) ==
    /\ range[1] = NoneDT \/ ~Before(t, range[1])
    /\ range[2] = NoneDT \/ ~Before(range[2], t)

\* "sentinel" as the spec's glossary defines it: year <= 1970
IsSentinel(t) == Year(t) <= 1970

-----------------------------------------------------------------------------
(* C1: with no filter active, the lines emitted by merge_messages_logs are *)
(* the stable sort by parsed instant of all non-blank lines collected      *)
(* source by source in resolver order (rotation descending) and in file    *)
(* order: every collected line sits at the rank that instant, then source  *)
(* order, then position in the file give it.                               *)
C1_MergeIsStableSort ==
    (Returned /\ ~FilterActive) =>
        LET P == Occurrences
        IN  /\ Len(all_lines) = Cardinality(P)
            /\ \A o \in P :
                  all_lines[Rank(o, P)] =
                      Entry(InstantOf(o), TextOf(o), o[1], RotationOf(o[1]))
            /\ ContentLines = [k \in 1..Len(all_lines) |-> all_lines[k].line]

\* two sources interleave: a line of the source processed later precedes a
\* line of the source processed first, and two lines tie on the instant
C1_Witness ==
    /\ Returned /\ ~FilterActive
    /\ \E i, j \in 1..Len(all_lines) :
          /\ i < j
          /\ all_lines[i].rotation < all_lines[j].rotation
          /\ Before(all_lines[i].timestamp, all_lines[j].timestamp)
    /\ \E i \in 1..Len(all_lines) - 1 :
          /\ all_lines[i].timestamp = all_lines[i + 1].timestamp
          /\ all_lines[i].line # all_lines[i + 1].line

(* C2: when a bound parsed, a non-blank line is retained iff its timestamp *)
(* is not the sentinel and lies within the bounds; when none parsed every  *)
(* non-blank line is retained, and the sentinel-timestamped lines come     *)
(* before every validly-timestamped line.                                  *)
C2_RetainedLines ==
    Returned =>
        /\ \A k \in 1..Len(all_lines) :
              \E o \in Occurrences :
                  o[1] = all_lines[k].file /\ TextOf(o) = all_lines[k].line
        /\ \A o \in Occurrences :
              LET t == InstantOf(o)
                  keep == IF FilterActive THEN ~IsSentinel(t) /\ WithinBounds(t) ELSE TRUE
              IN  TimesKept(o[1], TextOf(o)) = IF keep THEN TimesRead(o[1], TextOf(o)) ELSE 0
        /\ ~FilterActive =>
              \A i, j \in 1..Len(all_lines) :
                  (IsSentinel(all_lines[i].timestamp) /\ ~IsSentinel(all_lines[j].timestamp))
                      => i < j

\* under an active filter one line is kept, one is dropped for its sentinel
\* timestamp and one for lying outside the range
C2_Witness ==
    /\ Returned /\ FilterActive
    /\ Len(all_lines) > 0
    /\ \E o \in Occurrences : IsSentinel(InstantOf(o))
    /\ \E o \in Occurrences : ~IsSentinel(InstantOf(o)) /\ ~WithinBounds(InstantOf(o))

(* C3: a date-only end bound D is normalized to D 23:59:59: a line stamped *)
(* D 23:59:59 is admitted (when the start bound admits it) and every line  *)
(* stamped on a later date is excluded.                                    *)
C3_DateOnlyEnd ==
    (pc # "idle" /\ inp.end_datetime.layout = "date") =>
        LET D == inp.end_datetime.clock
            lastSecond == <<D[1], D[2], D[3], 86399, 0>>
        IN  /\ range[2] = lastSecond
            /\ Returned =>
                  \A o \in Occurrences :
                      LET t == InstantOf(o)
                      IN  /\ (t = lastSecond /\ (range[1] = NoneDT \/ ~Before(t, range[1])))
                              => TimesKept(o[1], TextOf(o)) = TimesRead(o[1], TextOf(o))
                          /\ LexLess(<<D[1], D[2], D[3]>>, <<t[1], t[2], t[3]>>)
                              => TimesKept(o[1], TextOf(o)) = 0

\* a line of 23:59:59 of day D was admitted and a line of the next day excluded
C3_Witness ==
    /\ Returned /\ inp.end_datetime.layout = "date"
    /\ \E k \in 1..Len(all_lines) :
          all_lines[k].timestamp = <<inp.end_datetime.clock[1], inp.end_datetime.clock[2],
                                     inp.end_datetime.clock[3], 86399, 0>>
    /\ \E o \in Occurrences :
          /\ InstantOf(o)[3] = inp.end_datetime.clock[3] + 1
          /\ TimesKept(o[1], TextOf(o)) = 0

\* the instant a well-formed bound string denotes
BoundInstant(str) ==
    <<str.clock[1], str.clock[2], str.clock[3],
      SecOfDay(str.clock[4], str.clock[5], str.clock[6]), 0>>

\* a bound was supplied and parse_date_range left it unset
Unapplied(str, dt) == str.layout # "none" /\ dt = NoneDT

(* C4: each bound is accepted in all three granularities: a date-only, a   *)
(* 'YYYY-MM-DD HH:MM' and a 'YYYY-MM-DD HH:MM:SS' string each parse to the *)
(* instant they denote (a date-only end to the end of that day), and the   *)
(* merge applies that instant as the bound.                                *)
C4_AllGranularitiesParse ==
    pc # "idle" =>
        /\ inp.start_datetime.layout \in {"date", "date_hm", "date_hms"}
              => range[1] = BoundInstant(inp.start_datetime)
        /\ inp.end_datetime.layout \in {"date_hm", "date_hms"}
              => range[2] = BoundInstant(inp.end_datetime)
        /\ inp.end_datetime.layout = "date"
              => range[2] = <<inp.end_datetime.clock[1], inp.end_datetime.clock[2],
                              inp.end_datetime.clock[3], 86399, 0>>

(* C5: a bound that does not parse does not fail the merge: that bound is  *)
(* left unapplied, the other bound is still applied if it parsed, and when *)
(* no supplied bound parses no filter is active and every non-blank line   *)
(* is retained.                                                            *)
C5_UnparsedBoundIgnored ==
    (pc # "idle" /\ (inp.start_datetime.layout = "other" \/ inp.end_datetime.layout = "other")) =>
        /\ raised = ""
        /\ (pc = "done" /\ ~result.success) => log_files = <<>>
        /\ inp.start_datetime.layout = "other" => range[1] = NoneDT
        /\ inp.end_datetime.layout = "other" => range[2] = NoneDT
        /\ inp.start_datetime.layout \in {"date", "date_hm"}
              => range[1] = BoundInstant(inp.start_datetime)
        /\ inp.end_datetime.layout = "date_hm"
              => range[2] = BoundInstant(inp.end_datetime)
        /\ inp.end_datetime.layout = "date"
              => range[2] = <<inp.end_datetime.clock[1], inp.end_datetime.clock[2],
                              inp.end_datetime.clock[3], 86399, 0>>
        /\ Returned =>
              /\ result.metadata.filter_start = range[1]
              /\ result.metadata.filter_end = range[2]
              /\ \A o \in Occurrences :
                    /\ (inp.start_datetime.layout \in {"date", "date_hm"}
                        /\ Before(InstantOf(o), BoundInstant(inp.start_datetime)))
                          => TimesKept(o[1], TextOf(o)) = 0
                    /\ (inp.end_datetime.layout = "date_hm"
                        /\ Before(BoundInstant(inp.end_datetime), InstantOf(o)))
                          => TimesKept(o[1], TextOf(o)) = 0
                    /\ (range = <<NoneDT, NoneDT>>)
                          => TimesKept(o[1], TextOf(o)) = TimesRead(o[1], TextOf(o))
              /\ (range = <<NoneDT, NoneDT>>)
                    => /\ result.metadata.lines_filtered_out = 0
                       /\ \A k \in 1..Len(result.content) : result.content[k].kind # "filter"

\* the start bound is malformed, the end bound parsed and dropped a line
\* while another line was retained
C5_Witness ==
    /\ Returned
    /\ inp.start_datetime.layout = "other"
    /\ inp.end_datetime.layout = "date_hm"
    /\ Len(all_lines) > 0
    /\ \E o \in Occurrences : Before(BoundInstant(inp.end_datetime), InstantOf(o))

IsHeaderItem(it) == it.kind \notin {"source", "line"}

IsSourceItem(it) == it.kind = "source"

\* line k of the merged lines comes from another source than line k - 1
SourceChanges(k) == k = 1 \/ all_lines[k].file # all_lines[k - 1].file

MarkersUpTo(k) == Cardinality({j \in 1..k : SourceChanges(j)})

(* C6: a "# Source:" marker stands immediately before a merged line exactly *)
(* when the line is the first one or its source differs from the source of *)
(* the preceding merged line; the markers number 1 plus the adjacent       *)
(* source changes (0 when no line is retained).                            *)
C6_SourceMarkers ==
    Returned =>
        LET content == result.content
            H == Len(SelectSeq(content, IsHeaderItem))
            n == Len(all_lines)
            Pos(k) == H + k + MarkersUpTo(k)
        IN  /\ \A p \in 1..H : IsHeaderItem(content[p])
            /\ Len(content) = H + n + MarkersUpTo(n)
            /\ Len(SelectSeq(content, IsSourceItem)) =
                  IF n = 0 THEN 0
                  ELSE 1 + Cardinality({k \in 2..n : all_lines[k].file # all_lines[k - 1].file})
            /\ \A k \in 1..n :
                  /\ content[Pos(k)].kind = "line"
                  /\ content[Pos(k)].val = all_lines[k].line
                  /\ IF SourceChanges(k)
                     THEN /\ content[Pos(k) - 1].kind = "source"
                          /\ content[Pos(k) - 1].val = <<all_lines[k].file, all_lines[k].rotation>>
                     ELSE content[Pos(k) - 1].kind = "line"

\* the sources interleave: more markers than files
C6_Witness ==
    /\ Returned
    /\ Len(SelectSeq(result.content, IsSourceItem)) > Len(log_files)

SupportedSuffix(suffix) == suffix \in {".tar.bz2", ".bz2", ".tar"}

(* C7: for an archive name whose suffix is none of .tar.bz2, .bz2, .tar,   *)
(* extraction fails with the unsupported-format error before any member is *)
(* extracted, and the merge returns success == false with that reason and  *)
(* empty content.                                                          *)
C7_UnsupportedSuffix ==
    (pc # "idle" /\ ~SupportedSuffix(inp.suffix)) =>
        /\ extracted = <<>>
        /\ pc \in {"extract", "raised", "done"}
        /\ pc = "raised" => raised = "Unsupported archive format"
        /\ pc = "done" =>
              /\ ~result.success
              /\ result.error = <<"Error processing archive", "Unsupported archive format">>
              /\ result.content = <<>>

\* a well-formed tar holding lines, under an unsupported name, was refused
C7_Witness ==
    /\ pc = "done"
    /\ ~SupportedSuffix(inp.suffix)
    /\ inp.payload = "tar"
    /\ TotalLines(disk) > 0
    /\ ~result.success

(* C8: on every exit path of merge_messages_logs the scratch directory     *)
(* created for the invocation has been deleted when the call returns: the  *)
(* directory exists exactly while the call is inside the with block.       *)
C8_ScratchReleased ==
    /\ pc = "done" => (~tempExists /\ extracted = <<>>)
    /\ tempExists <=> pc \in {"extract", "walk", "read", "emit", "return", "raised"}

\* the call returned through the exception handler after unpacking failed
C8_Witness ==
    /\ pc = "done"
    /\ raised = "ReadError"
    /\ ~tempExists

(* C9: if reading or decompressing a log segment of the selected family    *)
(* fails, the merge aborts and reports success == false; it never returns  *)
(* success == true with that segment's lines missing.                      *)
C9_ReadFailureAborts ==
    (/\ pc = "done"
     /\ \E i \in 1..Len(log_files) :
           /\ log_files[i][1] \in inp.unreadable
           /\ \E j \in 1..Len(LogDir[log_files[i][1]]) : ~IsBlank(LogDir[log_files[i][1]][j]))
        => ~result.success

-----------------------------------------------------------------------------
(* The analyzer and the worker on content without matching lines.          *)

\* no line of the content carries a session-id token
NoSessionLine(lines) ==
    \A i \in 1..Len(lines) : "session_id" \notin DOMAIN lines[i]

\* a modem-statistics line: an offset timestamp and every statistics token
IsStatsLine(line) ==
    /\ {"timestamp", "modem", "potentialBW", "loss", "upstream_delay",
        "shortest_rtt", "smooth_rtt", "min_rtt"} \subseteq DOMAIN line
    /\ line["timestamp"].frac # <<>>
    /\ line["timestamp"].off # <<>>

NoStatsLine(lines) == \A i \in 1..Len(lines) : ~IsStatsLine(lines[i])

\* the bytes of the file are what its name announces
Readable(file) ==
    \/ file.suffix \in {".tar.bz2", ".tar"} /\ file.payload = "tar"
    \/ file.suffix = ".bz2" /\ file.payload = "bz2"
    \/ file.suffix \notin {".tar.bz2", ".tar", ".bz2"}

\* process_job has returned or raised
JobEnded == wpc = "idle" /\ job_data # None

(* C10: readable content in which no line matches is processed to an empty *)
(* result and never to an error.  analyze_file on content without any      *)
(* session-id token returns success == true, total_sessions == 0 and an    *)
(* empty session list, whatever the filter bounds; a job on content        *)
(* without any modem-statistics line, when the object store and the status *)
(* updates work, ends in status 'completed' with metrics_count == 0 and    *)
(* nothing saved.                                                          *)
C10_NoMatchIsEmptySuccess ==
    /\ (/\ analysis # None
        /\ Readable(analysis[1].file)
        /\ NoSessionLine(analysis[1].file.lines))
          => /\ analysis[1].result.success
             /\ analysis[1].result.error = ""
             /\ analysis[1].result.total_sessions = <<0>>
             /\ analysis[1].result.sessions = <<>>
    /\ (/\ JobEnded
        /\ NoStatsLine(uploaded[1].lines)
        /\ last_error \notin {"fget_object", "update_session_status"})
          => /\ row.status = "completed"
             /\ row.metrics_count = <<0>>
             /\ row.error_message = None
             /\ bandwidth_metrics = <<>>

\* a log of events without session id and of incomplete statistics lines,
\* uploaded with a start bound and processed, then analyzed
C10_Witness ==
    /\ analysis # None
    /\ JobEnded
    /\ NoSessionLine(log_content)
    /\ NoStatsLine(log_content)
    /\ \E i \in 1..Len(log_content) : "state_transition" \in DOMAIN log_content[i]
    /\ \E i \in 1..Len(log_content) : "modem" \in DOMAIN log_content[i]
    /\ job_data[1].time_range.start # None
    /\ analysis[1].result.success
    /\ row.status = "completed"

-----------------------------------------------------------------------------
(* The telemetry records and the lines they come from.                     *)

\* the record m carries the values written on the line
RecordOf(m, line) ==
    /\ m.time.instant = <<line["timestamp"].clock[1], line["timestamp"].clock[2],
                          line["timestamp"].clock[3], line["timestamp"].clock[4],
                          line["timestamp"].frac[1]>>
    /\ m.modem_id = line["modem"]
    /\ m.packet_loss_percent = line["loss"]
    /\ m.upstream_delay_ms = line["upstream_delay"]
    /\ m.shortest_rtt_ms = line["shortest_rtt"]
    /\ m.smooth_rtt_ms = line["smooth_rtt"]
    /\ m.min_rtt_ms = line["min_rtt"]

(* C11: parse_content emits a record for a line only if that one line      *)
(* carries every required token (offset timestamp, modem index, bandwidth, *)
(* loss and the four delays), tokens of neighbouring lines do not count,   *)
(* and a line yields at most one record: the records of the worker map, in *)
(* order and one to one, to complete lines of the content whose values     *)
(* they carry.                                                             *)
C11_RecordNeedsEveryToken ==
    job_data # None =>
        \E f \in [1..Len(job_metrics) -> 1..Len(uploaded[1].lines)] :
            /\ \A k \in 1..Len(job_metrics) :
                  /\ IsStatsLine(uploaded[1].lines[f[k]])
                  /\ RecordOf(job_metrics[k], uploaded[1].lines[f[k]])
            /\ \A j, k \in 1..Len(job_metrics) : j < k => f[j] < f[k]

\* a line without the loss token next to a line carrying it, and a complete
\* line: one record
C11_Witness ==
    /\ wpc = "save"
    /\ Len(job_metrics) = 1
    /\ \E i \in 1..(Len(log_content) - 1) :
          /\ "loss" \in DOMAIN log_content[i]
          /\ ~IsStatsLine(log_content[i])
          /\ "loss" \notin DOMAIN log_content[i + 1]
          /\ "modem" \in DOMAIN log_content[i + 1]
    /\ \E i \in 1..Len(log_content) : IsStatsLine(log_content[i])

\* the job carries no time range: its records are those of parse_content
Unfiltered == job_data[1].time_range = TimeRange(None, None)

\* v / 1000 for kbps, v for mbps, v * 1000 for gbps, v / 1,000,000 for bps
\* and v for any other unit, in millionths of a Mbps
NormalizedMbps(bw) ==
    LET v == Thousandths(bw)
    IN  CASE bw.unit \in {"k", "K"} -> v
          [] bw.unit \in {"m", "M"} -> v * 1000
          [] bw.unit \in {"g", "G"} -> v * 1000000
          [] bw.unit = "" -> v \div 1000
          [] OTHER -> v * 1000

(* C12: every telemetry line whose bandwidth token is the number v and a   *)
(* unit yields a record whose bandwidth in Mbps is v / 1000 for kbps, v    *)
(* for mbps, v * 1000 for gbps, v / 1,000,000 for bps and v for any other  *)
(* unit; the unit never makes the extraction fail.                         *)
C12_UnitNormalization ==
    (wpc = "save" /\ Unfiltered) =>
        LET telemetry == SelectSeq(uploaded[1].lines, IsStatsLine)
        IN  /\ Len(job_metrics) = Len(telemetry)
            /\ \A k \in 1..Len(telemetry) :
                  job_metrics[k].bandwidth_mbps = NormalizedMbps(telemetry[k]["potentialBW"])

\* the instant written in a bound of the job's time range
RangeInstant(bound) ==
    <<bound[1].clock[1], bound[1].clock[2], bound[1].clock[3], bound[1].clock[4], 0>>

\* start <= t <= end for the bounds the job carries
InTimeRange(m) ==
    LET time_range == job_data[1].time_range
    IN  /\ time_range.start # None
            => ~LexLess(m.time.instant, RangeInstant(time_range.start))
        /\ time_range.end # None
            => ~LexLess(RangeInstant(time_range.end), m.time.instant)

(* C13: filter_metrics_by_time_range returns exactly the subsequence of    *)
(* the input records whose time t satisfies start <= t <= end (a record    *)
(* equal to a bound is kept), in scan order and unmodified.                *)
C13_FilterIsSubsequence ==
    (/\ job_data # None
     /\ ~Unfiltered
     /\ wpc \in {"save", "except"}
     /\ last_error \notin {"fget_object", "save_metrics", "update_session_status"})
        => /\ wpc = "save"
           /\ job_metrics = SelectSeq(parse_content(uploaded[1].lines), InTimeRange)

-----------------------------------------------------------------------------
(* The sessions of an analysis and the events they are built from.         *)

\* analyze_file returned the sessions of the content
Analyzed == analysis # None /\ analysis[1].result.success

EventTokens == {"state_transition", "readiness_change", "status_message", "session_stop"}

\* the tokens of the event kinds written on a line
EventKinds(line) == DOMAIN line \cap EventTokens

\* the events of session sid in the content, in the order of encounter: the
\* lines carrying the id, a timestamp with fraction and an event token
EventsOf(lines, sid) ==
    SelectSeq(lines, LAMBDA l :
        /\ _extract_session_id(l) = <<sid>>
        /\ _extract_timestamp(l) # None
        /\ EventKinds(l) # {})

\* the events are a transition and then a readiness event with video status
\* 'streaming', and nothing else
TransitionThenStreaming(events) ==
    /\ Len(events) = 2
    /\ EventKinds(events[1]) = {"state_transition"}
    /\ EventKinds(events[2]) = {"readiness_change"}
    /\ events[2]["readiness_change"] = "streaming"

\* the timeline is in the order of its timestamps
SortedTimeline(timeline) ==
    \A i \in 1..(Len(timeline) - 1) :
        ~LexLess(timeline[i + 1].timestamp, timeline[i].timestamp)

\* the first entry of the timeline whose label denotes streaming
FirstStreaming(timeline) ==
    timeline[CHOOSE i \in DOMAIN timeline :
                /\ MentionsStreaming(timeline[i].state)
                /\ \A j \in 1..(i - 1) : ~MentionsStreaming(timeline[j].state)]

\* a finalized session with final status 'streaming' and a start time: its
\* timeline is sorted and its setup duration is the time from the start to
\* the first entry denoting streaming
SetupFromFirstStreaming(s) ==
    /\ SortedTimeline(s.state_timeline)
    /\ (s.final_status = <<"streaming">> /\ s.start_time # None)
          => s.setup_duration =
                <<TotalSeconds(s.start_time, FirstStreaming(s.state_timeline).timestamp)>>

\* final status 'streaming' and setup duration T2 - T1 for the two events
SetupIsT2MinusT1(s, events) ==
    /\ s.final_status = <<"streaming">>
    /\ s.setup_duration =
          <<TotalSeconds(_extract_timestamp(events[1]), _extract_timestamp(events[2]))>>

-----------------------------------------------------------------------------
(* The instants of the telemetry records.                                  *)

\* the wall-clock value written on a line, as an offset-naive instant
NaiveWallClock(line) ==
    [instant |-> <<line["timestamp"].clock[1], line["timestamp"].clock[2],
                   line["timestamp"].clock[3], line["timestamp"].clock[4],
                   line["timestamp"].frac[1]>>,
     tz |-> None]

(* C15: a numeric UTC offset on a timestamp is discarded, never applied:   *)
(* whatever the offset written behind the wall-clock value W, positive or  *)
(* negative, the record parse_timestamp yields for the line carries the    *)
(* offset-naive instant W.                                                 *)
C15_OffsetDiscarded ==
    (wpc = "save" /\ Unfiltered) =>
        LET telemetry == SelectSeq(uploaded[1].lines, ModemMatch)
        IN  /\ Len(job_metrics) = Len(telemetry)
            /\ \A k \in 1..Len(telemetry) :
                  job_metrics[k].time = NaiveWallClock(telemetry[k])

-----------------------------------------------------------------------------
(* The scan of a session, line by line.                                    *)

\* the session with the given id among sessions, a fresh one when absent
SessionOf(sessions, sid) ==
    IF \E i \in DOMAIN sessions : sessions[i].session_id = sid
    THEN sessions[CHOOSE i \in DOMAIN sessions : sessions[i].session_id = sid]
    ELSE NewSession(sid)

\* the line is an event of session sid: it carries the id and a timestamp
\* with fraction
IsEventOf(line, sid) ==
    _extract_session_id(line) = <<sid>> /\ _extract_timestamp(line) # None

\* the session ids written in the content
SessionIds(lines) == { lines[k]["session_id"] : k \in { j \in DOMAIN lines :
                                                         "session_id" \in DOMAIN lines[j] } }

\* the final status after a line, from the status before it: set by a
\* readiness event and by a status message 'collecting' or 'streaming'
StatusAfter(line, sid, before) ==
    IF ~IsEventOf(line, sid) THEN before
    ELSE IF /\ "status_message" \in DOMAIN line
            /\ line["status_message"] \in {"collecting", "streaming"}
         THEN <<line["status_message"]>>
    ELSE IF "readiness_change" \in DOMAIN line THEN <<line["readiness_change"]>>
    ELSE before

(* C16: during a session scan the final status changes only on a readiness *)
(* event, which sets it to the event's video status, and on a status       *)
(* message whose token is 'collecting' or 'streaming', which sets it to    *)
(* that token; a status message with another token and every other kind of *)
(* line leave it unchanged, and the finalized session carries the status   *)
(* the scan ended with.                                                    *)
C16_FinalStatusChanges ==
    Analyzed =>
        LET lines == analysis[1].file.lines
        IN  /\ \A k \in 1..Len(lines) : \A sid \in SessionIds(lines) :
                  SessionOf(ScanSessions(SubSeq(lines, 1, k), <<>>), sid).final_status
                    = StatusAfter(lines[k], sid,
                        SessionOf(ScanSessions(SubSeq(lines, 1, k - 1), <<>>), sid).final_status)
            /\ \A i \in 1..Len(analysis[1].result.sessions) :
                  analysis[1].result.sessions[i].final_status
                    = SessionOf(ScanSessions(lines, <<>>),
                                analysis[1].result.sessions[i].session_id).final_status

\* video 'streaming' and then the status message 'connected': the session
\* is still 'streaming'
C16_Witness ==
    /\ Analyzed
    /\ \E k \in 2..Len(analysis[1].file.lines) :
          LET lines == analysis[1].file.lines
          IN  /\ IsEventOf(lines[k - 1], 7) /\ IsEventOf(lines[k], 7)
              /\ "readiness_change" \in DOMAIN lines[k - 1]
              /\ lines[k - 1]["readiness_change"] = "streaming"
              /\ "status_message" \in DOMAIN lines[k]
              /\ lines[k]["status_message"] = "connected"
              /\ k = Len(lines)
    /\ \E i \in 1..Len(analysis[1].result.sessions) :
          /\ analysis[1].result.sessions[i].session_id = 7
          /\ analysis[1].result.sessions[i].final_status = <<"streaming">>

-----------------------------------------------------------------------------
(* Stop and disconnect events.                                             *)

\* the stop and disconnect events of session sid, in the order of encounter
StopsOf(lines, sid) ==
    SelectSeq(lines, LAMBDA l : IsEventOf(l, sid) /\ "session_stop" \in DOMAIN l)

\* the 'end' markers of a timeline
EndMarkers(timeline) == SelectSeq(timeline, LAMBDA e : e.type = "end")

(* C17: a stop or disconnect event appends one 'end' marker to the         *)
(* timeline of its session, sets the end time to its timestamp only when   *)
(* the end time is still unset, so that the end time is the timestamp of   *)
(* the first stop or disconnect event encountered, and leaves the final    *)
(* status unchanged.                                                       *)
C17_StopEvents ==
    Analyzed =>
        LET lines == analysis[1].file.lines
        IN  /\ \A i \in 1..Len(analysis[1].result.sessions) :
                  LET s == analysis[1].result.sessions[i]
                      stops == StopsOf(lines, s.session_id)
                      ends == EndMarkers(s.state_timeline)
                  IN  /\ Len(ends) = Len(stops)
                      /\ \A j \in 1..Len(ends) : ends[j].state = <<"Session Stopped">>
                      /\ { ends[j].timestamp : j \in 1..Len(ends) }
                            = { _extract_timestamp(stops[j]) : j \in 1..Len(stops) }
                      /\ s.end_time = IF stops = <<>> THEN None
                                      ELSE _extract_timestamp(stops[1])
            /\ \A k \in 1..Len(lines) : \A sid \in SessionIds(lines) :
                  LET before == SessionOf(ScanSessions(SubSeq(lines, 1, k - 1), <<>>), sid)
                      after == SessionOf(ScanSessions(SubSeq(lines, 1, k), <<>>), sid)
                  IN  (IsEventOf(lines[k], sid) /\ EventKinds(lines[k]) = {"session_stop"})
                          => /\ after.final_status = before.final_status
                             /\ Len(after.state_timeline) = Len(before.state_timeline) + 1
                             /\ after.state_timeline[Len(after.state_timeline)].type = "end"
                             /\ after.end_time = IF before.end_time = None
                                                 THEN _extract_timestamp(lines[k])
                                                 ELSE before.end_time

\* a stop at 10:00:09 and then a stop stamped 10:00:04: two markers, and the
\* end time is that of the stop met first
C17_Witness ==
    /\ Analyzed
    /\ \E i \in 1..Len(analysis[1].result.sessions) :
          LET s == analysis[1].result.sessions[i]
              stops == StopsOf(analysis[1].file.lines, s.session_id)
          IN  /\ Len(stops) = 2
              /\ LexLess(_extract_timestamp(stops[2]), _extract_timestamp(stops[1]))
              /\ Len(EndMarkers(s.state_timeline)) = 2
              /\ s.end_time = _extract_timestamp(stops[1])

-----------------------------------------------------------------------------
(* The lines a session is built from.                                      *)

\* the tokens of the identity, network and streaming configuration patterns
FieldTokens ==
    {"unit_name", "server_instance", "server_version", "collector_address",
     "ifb_address", "stun_server", "video_port", "audio_ports", "profile",
     "spare_delay", "active_links", "encryption"}

\* the line matches one of the probed patterns: a field, or an event with a
\* timestamp
Probed(line) ==
    \/ DOMAIN line \cap FieldTokens # {}
    \/ EventKinds(line) # {} /\ _extract_timestamp(line) # None

\* the line carries a session identifier token
HasSessionId(line) == "session_id" \in DOMAIN line

\* the sessions analyze_file returns for the call of the analysis, made on
\* the given lines
SessionsFor(lines) ==
    analyze_file(File(analysis[1].file.suffix, analysis[1].file.payload, lines),
                 analysis[1].start_datetime, analysis[1].end_datetime).sessions

\* the lines without the one at position k
Without(lines, k) == SubSeq(lines, 1, k - 1) \o SubSeq(lines, k + 1, Len(lines))

(* C18: only the lines carrying a session identifier token are probed for  *)
(* identity fields, configuration fields and timestamped events; a line    *)
(* without a session-id match contributes to no session, whatever patterns *)
(* it matches: the sessions of a content are those of its lines carrying a *)
(* session id.                                                             *)
C18_OnlyIdLinesProbed ==
    Analyzed =>
        analysis[1].result.sessions
            = SessionsFor(SelectSeq(analysis[1].file.lines, HasSessionId))

\* a transition and a unit name on a line without session id, and a
\* readiness event of session 7: the session has neither start time nor unit
C18_Witness ==
    /\ Analyzed
    /\ \E k \in 1..Len(analysis[1].file.lines) :
          /\ ~HasSessionId(analysis[1].file.lines[k])
          /\ "state_transition" \in DOMAIN analysis[1].file.lines[k]
          /\ "unit_name" \in DOMAIN analysis[1].file.lines[k]
          /\ _extract_timestamp(analysis[1].file.lines[k]) # None
    /\ Len(analysis[1].result.sessions) = 1
    /\ analysis[1].result.sessions[1].final_status = <<"streaming">>
    /\ analysis[1].result.sessions[1].start_time = None
    /\ analysis[1].result.sessions[1].identity = EmptyDict

\* C18 as stated: a line matching a probed pattern contributes to session
\* state even without a session-id match, so the sessions differ from those
\* of the content without the line
C18_EveryLineProbed ==
    Analyzed =>
        \A k \in 1..Len(analysis[1].file.lines) :
            (~HasSessionId(analysis[1].file.lines[k]) /\ Probed(analysis[1].file.lines[k]))
                => analysis[1].result.sessions
                      # SessionsFor(Without(analysis[1].file.lines, k))

-----------------------------------------------------------------------------
(* The identity fields of a session.                                       *)

IdentityFields == {"unit_name", "server_instance", "server_version"}

\* the lines of session sid carrying the field, in the order of encounter
Naming(lines, sid, field) ==
    SelectSeq(lines, LAMBDA l : _extract_session_id(l) = <<sid>> /\ field \in DOMAIN l)

(* C19: for each session and each identity field (unit name, server        *)
(* instance, server version) the field holds the value of the first line   *)
(* of the session matching it; every later matching line leaves it         *)
(* unchanged, and without a matching line the field is not set.            *)
C19_FirstIdentityWins ==
    Analyzed =>
        \A i \in 1..Len(analysis[1].result.sessions) : \A field \in IdentityFields :
            LET s == analysis[1].result.sessions[i]
                naming == Naming(analysis[1].file.lines, s.session_id, field)
            IN  IF naming = <<>> THEN field \notin DOMAIN s.identity
                ELSE /\ field \in DOMAIN s.identity
                     /\ s.identity[field] = naming[1][field]

\* session 8 named LU800 and then LU600 on a line that also gives the
\* server version: the unit stays LU800, the version is taken
C19_Witness ==
    /\ Analyzed
    /\ \E i \in 1..Len(analysis[1].result.sessions) :
          LET s == analysis[1].result.sessions[i]
              naming == Naming(analysis[1].file.lines, s.session_id, "unit_name")
          IN  /\ Len(naming) = 2
              /\ naming[1]["unit_name"] = "LU800"
              /\ naming[2]["unit_name"] = "LU600"
              /\ s.identity = ("unit_name" :> "LU800") @@ ("server_version" :> "7.1.C1.G2")

-----------------------------------------------------------------------------
(* The setup duration and the order of encounter.                          *)

\* the readiness events of session sid with video status 'streaming'
StreamingReadiness(lines, sid) ==
    SelectSeq(EventsOf(lines, sid), LAMBDA l :
        "readiness_change" \in DOMAIN l /\ l["readiness_change"] = "streaming")

\* the earliest of the timestamps of the events
Earliest(events) ==
    _extract_timestamp(events[CHOOSE i \in DOMAIN events :
        \A j \in DOMAIN events :
            ~LexLess(_extract_timestamp(events[j]), _extract_timestamp(events[i]))])

(* C20: whenever the setup duration is present on a finalized session, it  *)
(* equals the timestamp of the session's first streaming-readiness event   *)
(* minus the timestamp of the session's earliest event, whatever the order *)
(* in which the events are met in the content.  Stated for the sessions    *)
(* whose only timeline entries denoting streaming are readiness events.    *)
C20_SetupFromEarliestEvent ==
    Analyzed =>
        \A i \in 1..Len(analysis[1].result.sessions) :
            LET s == analysis[1].result.sessions[i]
                events == EventsOf(analysis[1].file.lines, s.session_id)
                streaming == StreamingReadiness(analysis[1].file.lines, s.session_id)
            IN  (/\ s.setup_duration # None
                 /\ streaming # <<>>
                 /\ \A j \in 1..Len(s.state_timeline) :
                       MentionsStreaming(s.state_timeline[j].state)
                          => s.state_timeline[j].type = "readiness")
                    => s.setup_duration
                          = <<TotalSeconds(Earliest(events), Earliest(streaming))>>

-----------------------------------------------------------------------------
(* The duration of a session.                                              *)

\* the latest of the timestamps of the events
Latest(events) ==
    _extract_timestamp(events[CHOOSE i \in DOMAIN events :
        \A j \in DOMAIN events :
            ~LexLess(_extract_timestamp(events[i]), _extract_timestamp(events[j]))])

-----------------------------------------------------------------------------
(* The finalized timeline.                                                 *)

\* the type of the timeline entry an event line gives
EntryType(line) ==
    CASE "state_transition" \in DOMAIN line -> "transition"
      [] "readiness_change" \in DOMAIN line -> "readiness"
      [] "status_message" \in DOMAIN line -> "status"
      [] OTHER -> "end"

\* the orders in which n events can be arranged
Arrangements(n) ==
    { p \in [1..n -> 1..n] : \A i, j \in 1..n : i # j => p[i] # p[j] }

\* the timeline holds the events arranged by p, in non-decreasing order of
\* their timestamps, events of one timestamp in the order of encounter
StableSorted(timeline, events, p) ==
    /\ \A i \in 1..Len(timeline) :
          /\ timeline[i].timestamp = _extract_timestamp(events[p[i]])
          /\ timeline[i].type = EntryType(events[p[i]])
    /\ \A i, j \in 1..Len(timeline) :
          i < j => /\ ~LexLess(timeline[j].timestamp, timeline[i].timestamp)
                   /\ timeline[i].timestamp = timeline[j].timestamp => p[i] < p[j]

\* the duration of entry i: to the next entry when both timestamps parse as
\* dates, and then not negative; none otherwise and none for the last
DurationToNext(timeline, i) ==
    IF i < Len(timeline)
       /\ ValidClock(timeline[i].timestamp) /\ ValidClock(timeline[i + 1].timestamp)
    THEN /\ timeline[i].duration
              = <<TotalSeconds(timeline[i].timestamp, timeline[i + 1].timestamp)>>
         /\ timeline[i].duration[1] >= 0
    ELSE timeline[i].duration = None

(* C22: after finalization the timeline of each session holds every event  *)
(* of the session, in non-decreasing order of timestamp with events of     *)
(* equal timestamp in the order of encounter; every entry but the last     *)
(* carries the time to the next entry, which is not negative, or no        *)
(* duration when one of the two timestamps fails to parse; the last entry  *)
(* carries none; a parse failure neither removes an entry nor the session. *)
C22_TimelineFinalized ==
    Analyzed =>
        LET lines == analysis[1].file.lines
        IN  /\ \A i \in 1..Len(analysis[1].result.sessions) :
                  LET s == analysis[1].result.sessions[i]
                      events == EventsOf(lines, s.session_id)
                  IN  /\ Len(s.state_timeline) = Len(events)
                      /\ \E p \in Arrangements(Len(events)) :
                            StableSorted(s.state_timeline, events, p)
                      /\ \A k \in 1..Len(s.state_timeline) :
                            DurationToNext(s.state_timeline, k)
            /\ (analysis[1].start_datetime.layout = "none"
                    /\ analysis[1].end_datetime.layout = "none")
                  => \A sid \in SessionIds(lines) :
                        \E i \in 1..Len(analysis[1].result.sessions) :
                            analysis[1].result.sessions[i].session_id = sid

\* a status message stamped with month 13 met before a transition at
\* 10:00:00 and a readiness event at 10:00:05: three entries, the first with
\* five seconds, the second with no duration before the unparseable one
C22_Witness ==
    /\ Analyzed
    /\ \E i \in 1..Len(analysis[1].result.sessions) :
          LET timeline == analysis[1].result.sessions[i].state_timeline
          IN  /\ Len(timeline) = 3
              /\ timeline[1].duration = <<5000000>>
              /\ timeline[2].duration = None
              /\ ~ValidClock(timeline[3].timestamp)
              /\ timeline[3].type = "status"
              /\ analysis[1].result.sessions[i].session_duration = None

-----------------------------------------------------------------------------
(* The date filter on sessions.                                            *)

\* the bound is supplied, and parses as a date
Supplied(bound) == bound.layout # "none"
Parseable(bound) == bound.layout \in {"date", "date_hm", "date_hms"}

\* start <= startTime <= end, each bound applied only if supplied
InFilterRange(s) ==
    /\ s.start_time # None
    /\ Supplied(analysis[1].start_datetime)
          => ~LexLess(s.start_time, BoundInstant(analysis[1].start_datetime))
    /\ Supplied(analysis[1].end_datetime)
          => ~LexLess(BoundInstant(analysis[1].end_datetime), s.start_time)

\* the call of the analysis carries a filter
Filtered == Supplied(analysis[1].start_datetime) \/ Supplied(analysis[1].end_datetime)

\* the sessions of the content before the filter
Unbounded == analyze_file(analysis[1].file, NoBound, NoBound).sessions

BadBound ==
    \/ Supplied(analysis[1].start_datetime) /\ ~Parseable(analysis[1].start_datetime)
    \/ Supplied(analysis[1].end_datetime) /\ ~Parseable(analysis[1].end_datetime)

(* C24: when a supplied filter bound fails to parse as a date, every       *)
(* session that has a start time is retained, whichever of the two bounds  *)
(* is the unparseable one and whatever the other bound is.                 *)
C24_FailOpen ==
    (Analyzed /\ BadBound) =>
        analysis[1].result.sessions
            = SelectSeq(Unbounded, LAMBDA s : s.start_time # None)

-----------------------------------------------------------------------------
(* The aggregates of an analysis.                                          *)

\* the number of returned sessions with the given final status
WithStatus(status) ==
    Len(SelectSeq(analysis[1].result.sessions, LAMBDA s : s.final_status = status))

(* C25: successful_sessions counts the returned sessions whose final       *)
(* status is 'streaming' and failed_sessions those whose final status is   *)
(* neither 'streaming' nor 'collecting'; a session still 'collecting' is   *)
(* in neither counter, so successful_sessions + failed_sessions plus the   *)
(* number of 'collecting' sessions is total_sessions.                      *)
C25_CountersAndCollecting ==
    Analyzed =>
        /\ analysis[1].result.total_sessions = <<Len(analysis[1].result.sessions)>>
        /\ analysis[1].result.successful_sessions = <<WithStatus(<<"streaming">>)>>
        /\ analysis[1].result.failed_sessions
              = <<Len(analysis[1].result.sessions) - WithStatus(<<"streaming">>)
                    - WithStatus(<<"collecting">>)>>
        /\ analysis[1].result.successful_sessions[1] + analysis[1].result.failed_sessions[1]
              + WithStatus(<<"collecting">>) = analysis[1].result.total_sessions[1]

\* a 'collecting' session next to a session without status: one of the two
\* is failed, none successful
C25_Witness ==
    /\ Analyzed
    /\ WithStatus(<<"collecting">>) = 1
    /\ analysis[1].result.total_sessions = <<2>>
    /\ analysis[1].result.successful_sessions = <<0>>
    /\ analysis[1].result.failed_sessions = <<1>>

\* C25 as stated: the two counters partition the returned sessions
C25_CountersPartition ==
    Analyzed =>
        /\ analysis[1].result.successful_sessions = <<WithStatus(<<"streaming">>)>>
        /\ analysis[1].result.successful_sessions[1] + analysis[1].result.failed_sessions[1]
              = analysis[1].result.total_sessions[1]

\* the arithmetic mean, as <<sum, count>>, of the values that are present;
\* None when none is
MeanOfPresent(values) ==
    LET present == SelectSeq(values, LAMBDA d : d # None)
    IN  IF present = <<>> THEN None
        ELSE <<SeqSum([i \in 1..Len(present) |-> present[i][1]]), Len(present)>>

(* C26: avg_session_duration is the arithmetic mean of the session         *)
(* duration over exactly the sessions that have one, and avg_setup_time    *)
(* the mean of the setup duration over exactly the sessions that have one: *)
(* a duration of 0 counts as present and is included, and the average is   *)
(* absent only when no session has the duration.                           *)
C26_MeanOverPresent ==
    Analyzed =>
        /\ analysis[1].result.avg_session_duration
              = MeanOfPresent([i \in 1..Len(analysis[1].result.sessions) |->
                                  analysis[1].result.sessions[i].session_duration])
        /\ analysis[1].result.avg_setup_time
              = MeanOfPresent([i \in 1..Len(analysis[1].result.sessions) |->
                                  analysis[1].result.sessions[i].setup_duration])

(* C28: for every finalized session the session duration, when present, is *)
(* not negative, whatever the order in which the transition, readiness,    *)
(* status and stop events of the session are met in the content.           *)
C28_DurationNotNegative ==
    Analyzed =>
        \A i \in 1..Len(analysis[1].result.sessions) :
            analysis[1].result.sessions[i].session_duration # None
                => analysis[1].result.sessions[i].session_duration[1] >= 0

-----------------------------------------------------------------------------
(* The counters of a merge.                                                *)

\* the log lines of the merged content
OutputLines == SelectSeq(result.content, LAMBDA it : it.kind = "line")

(* C27: in every successful merge result, with or without an active        *)
(* filter, total_entries + lines_filtered_out = total_lines_processed,     *)
(* where total_lines_processed is the number of non-blank lines scanned    *)
(* across all sources and total_entries the number of log lines in the     *)
(* output.                                                                 *)
C27_CountersAddUp ==
    Returned =>
        /\ result.metadata.total_lines_processed = Cardinality(Occurrences)
        /\ result.metadata.total_entries = Len(OutputLines)
        /\ result.metadata.total_entries + result.metadata.lines_filtered_out
              = result.metadata.total_lines_processed
        /\ ~FilterActive => result.metadata.lines_filtered_out = 0

\* a filtered merge that kept a line and dropped another, with a blank line
\* in a source
C27_Witness ==
    /\ Returned
    /\ FilterActive
    /\ result.metadata.total_entries = 1
    /\ result.metadata.lines_filtered_out = 1
    /\ result.metadata.total_lines_processed = 2
    /\ \E f \in Sources : \E j \in 1..Len(LinesRead(f)) : IsBlank(LinesRead(f)[j])

-----------------------------------------------------------------------------
(* The directory a merge reads.                                            *)

\* what extract_archive unpacks for the call
Unpacked == extract_archive([suffix |-> inp.suffix, payload |-> inp.payload, dirs |-> disk])

\* directory k of the extracted archive holds a current log or a rotated
\* segment
HoldsCandidate(k) ==
    \E f \in DOMAIN Unpacked.members[k] : f = CurrentLog \/ IsRotatedSegment(f)

\* the merge reported that no messages.log files were found
NotFound ==
    /\ ~result.success
    /\ result.error \in { <<"No messages.log files found in archive">>,
                          <<"No messages.log files found">> }

(* C30: merge_messages_logs reports that no messages.log files were found  *)
(* only when no directory of the extracted archive holds a current log or  *)
(* a rotated segment; whenever some directory holds one, the merge         *)
(* proceeds on the first such directory in traversal order.                *)
C30_FirstCandidateDirectory ==
    (pc = "done" /\ Unpacked.raised = "") =>
        /\ NotFound => \A k \in DOMAIN Unpacked.members : ~HoldsCandidate(k)
        /\ \A k \in DOMAIN Unpacked.members :
              (HoldsCandidate(k) /\ \A j \in 1..(k - 1) : ~HoldsCandidate(j))
                  => /\ result.success
                     /\ result.metadata.extraction_directory = k

-----------------------------------------------------------------------------
(* The status of an uploaded job.                                          *)

Terminal == {"completed", "failed"}

\* a status update was refused by the database
UpdateRefused == last_error = "update_session_status"

\* the steps the status of a job may take
Lifecycle ==
    { <<"absent", "queued">>, <<"queued", "processing">>,
      <<"processing", "completed">>, <<"processing", "failed">> }

\* the records of the uploaded log that lie within the job's time range
Remaining == SelectSeq(parse_content(uploaded[1].lines), InTimeRange)

(* C29: the status of an uploaded job follows queued -> processing ->      *)
(* (completed | failed). The row is 'queued' while its job waits in the    *)
(* queue; it is 'processing' whenever process_job fetches, parses or       *)
(* saves; unless a status update is refused, the status only moves along   *)
(* the lifecycle, a job that ended is 'completed' or 'failed' and not      *)
(* 'processing', and every dequeued job eventually ends so; 'completed'    *)
(* carries as metrics_count the number of records within the time range,   *)
(* 'failed' carries the error message; a terminal row never changes.       *)
C29_JobStatusLifecycle ==
    /\ [](parse_queue # <<>> => row.status = "queued")
    /\ [](wpc \in {"fetch", "save"} => row.status = "processing")
    /\ [][(row'.status # row.status /\ ~UpdateRefused')
            => <<row.status, row'.status>> \in Lifecycle]_vars
    /\ [][row.status \in Terminal => row' = row]_vars
    /\ [](row.status = "completed"
            => /\ row.metrics_count = <<Len(Remaining)>>
               /\ row.error_message = None)
    /\ [](row.status = "failed"
            => /\ row.error_message = <<last_error>>
               /\ last_error # ""
               /\ row.metrics_count = None)
    /\ []((JobEnded /\ ~UpdateRefused) => row.status \in Terminal)
    /\ (wpc = "start") ~> (JobEnded /\ (row.status \in Terminal \/ UpdateRefused))

\* a job whose time range removed one of two records ended 'completed'
\* with a count of 1
C29_Witness ==
    /\ JobEnded
    /\ ~UpdateRefused
    /\ row.status = "completed"
    /\ Len(parse_content(uploaded[1].lines)) = 2
    /\ row.metrics_count = <<1>>

=============================================================================
